---- MODULE Spec2Model ----
(***************************************************************************)
(* Verification model of the hybrid retrieval and indexing engine of       *)
(* H_ollama_gpt: the circuit breaker (core/circuit_breaker.py), the        *)
(* embedding cache (core/caching.py), the lexical index and its sharded    *)
(* variant (core/retrievers.py), the upload path that feeds the persisted  *)
(* lexical index (document_processor.py), and the orchestrator's rank      *)
(* fusion, hybrid search, query expansion (services/rag_service.py) and    *)
(* re-ranking stage (rag_service.py).                                      *)
(*                                                                         *)
(* Each component has its own next-state relation and specification over   *)
(* one shared set of variables; a component's actions leave the other      *)
(* components' variables unchanged.                                        *)
(***************************************************************************)
EXTENDS Integers, Sequences, FiniteSets, TLC

(***************************************************************************)
(* Bounds of the model.                                                    *)
(***************************************************************************)
\* threads that call the function wrapped by one CircuitBreaker
NumCallers == 2
\* wrapper invocations explored
MaxCalls == 5
\* clock values explored (time.time() advances by Tick)
MaxTime == 5
\* CircuitBreaker(failure_threshold=..., recovery_timeout=...) as constructed
failure_threshold == 2
recovery_timeout == 2

\* coroutines of one process that call EmbeddingCache.get_or_create
NumCoros == 2
\* get_or_create calls explored
MaxCacheCalls == 3

\* worker processes that run DocumentProcessor.process_upload_stream
NumWriters == 2
\* uploads explored
MaxUploads == 3

\* DistributedBM25(shard_size=...) as constructed
shard_size == 2
\* documents added to the sharded index, documents per add_documents call,
\* and the largest top_k asked of retrieve
MaxDocs == 5
MaxBatch == 2
MaxTopK == 2

\* documents handed to one BM25Retriever.fit call
MaxFit == 3

\* candidates in one ranked list handed to rank fusion
MaxList == 3

\* fused candidates that reach the re-ranking stage
MaxCands == 4

\* embeddings handed to one find_breakpoints call, and documents handed to
\* one chunking call
MaxSentences == 3
MaxDocuments == 2

\* DistributedBM25(shard_size=...) and the documents added while a retrieve
\* may be running
reader_shard_size == 3
MaxIndexed == 4

\* uploads between which documents are deleted and questions answered
MaxStored == 2

Callers == 1..NumCallers
Writers == 1..NumWriters
Coros == 1..NumCoros
\* the texts handed to the cache
Texts == {"tA", "tB"}
\* Optional[List[float]] = None, and the text of a coroutine that made no call
None == <<"None">>
NoText == ""

VARIABLES
    \* ---- CircuitBreaker (core/circuit_breaker.py)
    state,              \* self.state
    failures,           \* self.failures
    last_failure_time,  \* self.last_failure_time
    now,                \* time.time()
    cpc,                \* per caller: "idle" or "running" (inside func, line 26)
    outcome,            \* per caller: how its last wrapper call ended
    calls,              \* wrapper invocations so far
    invoked,            \* invocations of the wrapped func so far
    trial,              \* invocations of func admitted since the breaker left OPEN
    opened_at,          \* time.time() of the failure that last took the state to OPEN
    \* ---- EmbeddingCache over RedisCache (core/caching.py)
    redis,              \* the key-value store: key -> stored string
    lock,               \* self.lock (asyncio.Lock): 0 or the coroutine holding it
    epc,                \* per coroutine: its position in get_or_create
    etext,              \* per coroutine: the text argument
    eemb,               \* per coroutine: the local variable embedding
    eret,               \* per coroutine: what its last get_or_create returned
    embedCalls,         \* per text: calls of embed_fn(text) so far
    done,               \* per text: get_or_create(text) calls that returned
    started,            \* get_or_create calls so far
    expired,            \* texts whose entry the store has dropped (TTL)
    \* ---- upload path and persisted lexical index (document_processor.py)
    collection,         \* ids held by the vector store (self.collection)
    disk,               \* the on-disk snapshot: [corpus, doc_ids]
    lockHolder,         \* the lock file: 0 or the process holding it
    mem,                \* per process: the in-memory [corpus, doc_ids] it serves
    upc,                \* per process: position in process_upload_stream
    ufile,              \* per process: filename of the upload in progress
    uskipped,           \* per process: its index_documents call skipped the update
    uploads,            \* uploads started so far
    committed,          \* <<id, text>> of every document saved under the lock, in order
    \* ---- DistributedBM25 (core/retrievers.py)
    shards,             \* self.shards: sequence of BM25Retriever [corpus, doc_ids, bm25]
    doc_id_to_shard,    \* self.doc_id_to_shard
    added,              \* (doc, doc_id) pairs add_documents has taken so far
    dres,               \* the last retrieve call: its arguments and how it ended
    \* ---- one BM25Retriever (core/retrievers.py)
    r_corpus,           \* self.corpus
    r_doc_ids,          \* self.doc_ids
    r_bm25,             \* self.bm25: None, or the corpus its statistics were built on
    rres,               \* the last fit / retrieve call: its arguments and how it ended
    \* ---- RAGService (services/rag_service.py, rag_service.py)
    fres,               \* the last _fuse_results_rrf call: arguments and result
    hres,               \* the last hybrid_search call: arguments and how it ended
    kres,               \* the last run of the re-ranking stage: arguments and result
    qres,               \* the last query_expansion call: how it ended
    qcalls,             \* query_expansion calls so far
    \* ---- SemanticChunker, ParentChildChunker (core/chunkers.py)
    cres,               \* the last chunker call: its arguments and how it ended
    \* ---- DistributedBM25 with a retrieve beside add_documents
    wpc,                \* add_documents: its position and the pairs still to append
    tpc,                \* the worker thread of each shard search: position and reads
    gres,               \* the retrieve call: arguments and how it ended
    \* ---- RAGService (rag_service.py): delete_document and retrieval
    removed,            \* files whose chunks were deleted from the vector store and
                        \* not uploaded since
    ares                \* the last answer_question_stream retrieval: what it saw
                        \* and the passages it handed on

breakerVars == <<state, failures, last_failure_time, now, cpc, outcome, calls,
                 invoked, trial, opened_at>>

cacheVars == <<redis, lock, epc, etext, eemb, eret, embedCalls, done, started,
               expired>>

indexVars == <<collection, disk, lockHolder, mem, upc, ufile, uskipped, uploads,
               committed>>

shardVars == <<shards, doc_id_to_shard, added, dres>>

retrieverVars == <<r_corpus, r_doc_ids, r_bm25, rres>>

serviceVars == <<fres, hres, kres, qres, qcalls>>

\* the chunkers
chunkerVars == <<cres>>

\* retrieve beside add_documents
concurrentVars == <<wpc, tpc, gres>>

\* deletion and retrieval in RAGService
answerVars == <<removed, ares>>

pipelineVars == <<chunkerVars, concurrentVars, answerVars>>

retrievalVars == <<retrieverVars, serviceVars, pipelineVars>>

vars == <<breakerVars, cacheVars, indexVars, shardVars, retrievalVars>>

(***************************************************************************)
(* CircuitBreaker                                                          *)
(***************************************************************************)
InitBreaker ==
    /\ state = "CLOSED"
    /\ failures = 0
    /\ last_failure_time = 0
    /\ now = 1
    /\ cpc = [p \in Callers |-> "idle"]
    /\ outcome = [p \in Callers |-> "none"]
    /\ calls = 0
    /\ invoked = 0
    /\ trial = 0
    /\ opened_at = 0

\* line 20: time.time() - self.last_failure_time > self.recovery_timeout
WindowElapsed_Mut == now - last_failure_time >= recovery_timeout
WindowElapsed == now - last_failure_time > recovery_timeout

\* line 34: self.failures >= self.failure_threshold
ThresholdReached_Eq(f) == f = failure_threshold
ThresholdReached_Gt(f) == f > failure_threshold
ThresholdReached(f) == f >= failure_threshold

\* time.time() advances between two steps of the program
Tick ==
    /\ now < MaxTime
    /\ now' = now + 1
    /\ UNCHANGED <<state, failures, last_failure_time, cpc, outcome, calls,
                   invoked, trial, opened_at>>
    /\ UNCHANGED <<cacheVars, indexVars, shardVars, retrievalVars>>

\* a refusal that restarts the recovery window
Reject_ExtendsWindow(p) ==
    /\ cpc[p] = "idle"
    /\ calls < MaxCalls
    /\ state = "OPEN"
    /\ ~WindowElapsed
    /\ calls' = calls + 1
    /\ outcome' = [outcome EXCEPT ![p] = "rejected"]
    /\ last_failure_time' = now
    /\ UNCHANGED <<state, failures, now, cpc, invoked, trial, opened_at>>
    /\ UNCHANGED <<cacheVars, indexVars, shardVars, retrievalVars>>

\* lines 19-23, the else branch: the call is refused, func is not reached
Reject(p) ==
    /\ cpc[p] = "idle"
    /\ calls < MaxCalls
    /\ state = "OPEN"
    /\ ~WindowElapsed
    /\ calls' = calls + 1
    /\ outcome' = [outcome EXCEPT ![p] = "rejected"]
    /\ UNCHANGED <<state, failures, last_failure_time, now, cpc, invoked, trial,
                   opened_at>>
    /\ UNCHANGED <<cacheVars, indexVars, shardVars, retrievalVars>>

\* lines 19-21 and 25-26: the call passes the OPEN check (turning an elapsed
\* OPEN into HALF-OPEN) and enters func
Admit(p) ==
    /\ cpc[p] = "idle"
    /\ calls < MaxCalls
    /\ state = "OPEN" => WindowElapsed
    /\ state' = IF state = "OPEN" THEN "HALF-OPEN" ELSE state
    /\ trial' = IF state = "OPEN" THEN 1
                ELSE IF state = "HALF-OPEN" THEN trial + 1
                ELSE trial
    /\ calls' = calls + 1
    /\ invoked' = invoked + 1
    /\ cpc' = [cpc EXCEPT ![p] = "running"]
    /\ outcome' = [outcome EXCEPT ![p] = "none"]
    /\ UNCHANGED <<failures, last_failure_time, now, opened_at>>
    /\ UNCHANGED <<cacheVars, indexVars, shardVars, retrievalVars>>

\* a return that resets the failure count in every state
ReturnOK_ResetsAlways(p) ==
    /\ cpc[p] = "running"
    /\ state' = IF state = "HALF-OPEN" THEN "CLOSED" ELSE state
    /\ failures' = 0
    /\ trial' = IF state = "HALF-OPEN" THEN 0 ELSE trial
    /\ cpc' = [cpc EXCEPT ![p] = "idle"]
    /\ outcome' = [outcome EXCEPT ![p] = "returned"]
    /\ UNCHANGED <<last_failure_time, now, calls, invoked, opened_at>>
    /\ UNCHANGED <<cacheVars, indexVars, shardVars, retrievalVars>>

\* lines 26-30: func returned
ReturnOK(p) ==
    /\ cpc[p] = "running"
    /\ state' = IF state = "HALF-OPEN" THEN "CLOSED" ELSE state
    /\ failures' = IF state = "HALF-OPEN" THEN 0 ELSE failures
    /\ trial' = IF state = "HALF-OPEN" THEN 0 ELSE trial
    /\ cpc' = [cpc EXCEPT ![p] = "idle"]
    /\ outcome' = [outcome EXCEPT ![p] = "returned"]
    /\ UNCHANGED <<last_failure_time, now, calls, invoked, opened_at>>
    /\ UNCHANGED <<cacheVars, indexVars, shardVars, retrievalVars>>

\* lines 31-36: func raised
Raise(p) ==
    /\ cpc[p] = "running"
    /\ failures' = failures + 1
    /\ last_failure_time' = now
    /\ state' = IF ThresholdReached(failures') THEN "OPEN" ELSE state
    /\ trial' = IF ThresholdReached(failures') THEN 0 ELSE trial
    /\ opened_at' = IF ThresholdReached(failures') /\ state # "OPEN"
                    THEN now ELSE opened_at
    /\ cpc' = [cpc EXCEPT ![p] = "idle"]
    /\ outcome' = [outcome EXCEPT ![p] = "raised"]
    /\ UNCHANGED <<now, calls, invoked>>
    /\ UNCHANGED <<cacheVars, indexVars, shardVars, retrievalVars>>

NextBreaker ==
    \/ Tick
    \/ \E p \in Callers : Reject(p)
    \/ \E p \in Callers : Admit(p)
    \/ \E p \in Callers : ReturnOK(p)
    \/ \E p \in Callers : Raise(p)

(***************************************************************************)
(* RedisCache and EmbeddingCache                                           *)
(***************************************************************************)
InitCache ==
    /\ redis = [k \in {} |-> None]
    /\ lock = 0
    /\ epc = [c \in Coros |-> "idle"]
    /\ etext = [c \in Coros |-> NoText]
    /\ eemb = [c \in Coros |-> None]
    /\ eret = [c \in Coros |-> None]
    /\ embedCalls = [t \in Texts |-> 0]
    /\ done = [t \in Texts |-> 0]
    /\ started = 0
    /\ expired = {}

\* embed_fn(text): the embedding call, deterministic for identical text
embed_fn(text) == IF text = "tA" THEN <<1, 0>> ELSE <<0, 1>>

\* line 59: hashlib.blake2b(text.encode(), digest_size=16).hexdigest();
\* keys are sequences of their parts
_hash_text(text) == <<"blake2b16", text>>

\* lines 40 and 33: json.dumps(value), json.loads(value)
json_dumps(value) == <<"json", value>>
json_loads(str) == str[2]

\* lines 32 and 39: the key RedisCache reads and writes, f"rag:{key}"
rag_key(key) == <<"rag:">> \o key

\* lines 62-64: the key EmbeddingCache.get looks up, f"emb:{key}"
emb_key_get(text) == <<"emb:">> \o _hash_text(text)

\* lines 67-69: the key EmbeddingCache.set stores under, f"emb:{key}"
emb_key_set_NoPrefix(text) == _hash_text(text)
emb_key_set(text) == <<"emb:">> \o _hash_text(text)

\* lines 30-33: RedisCache.get
RedisCache_get(key) ==
    LET value == IF rag_key(key) \in DOMAIN redis THEN redis[rag_key(key)] ELSE None
    IN  IF value # None THEN json_loads(value) ELSE None

\* lines 36-42: RedisCache.set
RedisCache_set(key, value) == (rag_key(key) :> json_dumps(value)) @@ redis

\* a caller invokes get_or_create(text, embed_fn): lines 71-72, up to the
\* `async with self.lock` of get
Begin(c, text) ==
    /\ epc[c] = "idle"
    /\ started < MaxCacheCalls
    /\ started' = started + 1
    /\ epc' = [epc EXCEPT ![c] = "get"]
    /\ etext' = [etext EXCEPT ![c] = text]
    /\ eemb' = [eemb EXCEPT ![c] = None]
    /\ eret' = [eret EXCEPT ![c] = None]
    /\ UNCHANGED <<redis, lock, embedCalls, done, expired>>
    /\ UNCHANGED <<breakerVars, indexVars, shardVars, retrievalVars>>

\* the same call made when no other get_or_create is in progress
BeginSeq(c, text) ==
    /\ \A d \in Coros : epc[d] = "idle"
    /\ Begin(c, text)

\* line 63: get acquires self.lock
GetAcquire(c) ==
    /\ epc[c] = "get"
    /\ lock = 0
    /\ lock' = c
    /\ epc' = [epc EXCEPT ![c] = "get_io"]
    /\ UNCHANGED <<redis, etext, eemb, eret, embedCalls, done, started, expired>>
    /\ UNCHANGED <<breakerVars, indexVars, shardVars, retrievalVars>>

\* lines 64 and 72-74: the store answers, get releases the lock and returns;
\* get_or_create returns the cached vector or goes on to embed_fn
GetRead(c) ==
    /\ epc[c] = "get_io"
    /\ lock = c
    /\ LET cached == RedisCache_get(emb_key_get(etext[c]))
       IN  IF cached # None
           THEN /\ epc' = [epc EXCEPT ![c] = "idle"]
                /\ eret' = [eret EXCEPT ![c] = cached]
                /\ done' = [done EXCEPT ![etext[c]] = @ + 1]
           ELSE /\ epc' = [epc EXCEPT ![c] = "embed"]
                /\ UNCHANGED <<eret, done>>
    /\ lock' = 0
    /\ UNCHANGED <<redis, etext, eemb, embedCalls, started, expired>>
    /\ UNCHANGED <<breakerVars, indexVars, shardVars, retrievalVars>>

\* line 76: embedding = await embed_fn(text)
Embed(c) ==
    /\ epc[c] = "embed"
    /\ embedCalls' = [embedCalls EXCEPT ![etext[c]] = @ + 1]
    /\ eemb' = [eemb EXCEPT ![c] = embed_fn(etext[c])]
    /\ epc' = [epc EXCEPT ![c] = "set"]
    /\ UNCHANGED <<redis, lock, etext, eret, done, started, expired>>
    /\ UNCHANGED <<breakerVars, indexVars, shardVars, retrievalVars>>

\* lines 77 and 68: set acquires self.lock
SetAcquire(c) ==
    /\ epc[c] = "set"
    /\ lock = 0
    /\ lock' = c
    /\ epc' = [epc EXCEPT ![c] = "set_io"]
    /\ UNCHANGED <<redis, etext, eemb, eret, embedCalls, done, started, expired>>
    /\ UNCHANGED <<breakerVars, indexVars, shardVars, retrievalVars>>

\* lines 69 and 78: the store takes the entry, set releases the lock,
\* get_or_create returns the embedding
SetWrite(c) ==
    /\ epc[c] = "set_io"
    /\ lock = c
    /\ redis' = RedisCache_set(emb_key_set(etext[c]), eemb[c])
    /\ lock' = 0
    /\ epc' = [epc EXCEPT ![c] = "idle"]
    /\ eret' = [eret EXCEPT ![c] = eemb[c]]
    /\ done' = [done EXCEPT ![etext[c]] = @ + 1]
    /\ UNCHANGED <<etext, eemb, embedCalls, started, expired>>
    /\ UNCHANGED <<breakerVars, indexVars, shardVars, retrievalVars>>

\* the store drops the entry of a text when its TTL (line 69: 7200 s) runs out
Expire(text) ==
    /\ rag_key(emb_key_set(text)) \in DOMAIN redis
    /\ redis' = [k \in DOMAIN redis \ {rag_key(emb_key_set(text))} |-> redis[k]]
    /\ expired' = expired \cup {text}
    /\ UNCHANGED <<lock, epc, etext, eemb, eret, embedCalls, done, started>>
    /\ UNCHANGED <<breakerVars, indexVars, shardVars, retrievalVars>>

CacheSteps ==
    \/ \E c \in Coros : GetAcquire(c)
    \/ \E c \in Coros : GetRead(c)
    \/ \E c \in Coros : Embed(c)
    \/ \E c \in Coros : SetAcquire(c)
    \/ \E c \in Coros : SetWrite(c)
    \/ \E text \in Texts : Expire(text)

\* callers overlap freely (coroutines of one event loop)
NextCache ==
    \/ \E c \in Coros, text \in Texts : Begin(c, text)
    \/ CacheSteps

\* one get_or_create at a time: each call starts after the previous returned
NextCacheSeq ==
    \/ \E c \in Coros, text \in Texts : BeginSeq(c, text)
    \/ CacheSteps

(***************************************************************************)
(* Text and the tokenizer                                                  *)
(***************************************************************************)
\* raw text is a sequence of items: words as written, and punctuation
Punctuation == {".", ",", "!"}

\* str.lower() on one word
lower(w) ==
    CASE w = "Fox" -> "fox"
      [] w = "Quick" -> "quick"
      [] w = "Hound" -> "hound"
      [] OTHER -> w

RECURSIVE tokenizer(_)
\* the tokenizer of the lexical index: re.findall(r'\b\w+\b', text.lower()),
\* case-folded alphanumeric runs, punctuation dropped
tokenizer(text) ==
    IF text = <<>> THEN <<>>
    ELSE IF Head(text) \in Punctuation THEN tokenizer(Tail(text))
    ELSE <<lower(Head(text))>> \o tokenizer(Tail(text))

(***************************************************************************)
(* DocumentProcessor.process_upload_stream and the persisted lexical index *)
(***************************************************************************)
\* the uploaded files
Filenames == {"a.pdf", "b.pdf"}

\* lines 72-92: the chunk texts extracted from a file
FileChunks(filename) ==
    IF filename = "a.pdf"
    THEN << <<"Quick", "Fox", ".">>, <<"fox", ",", "Hound">> >>
    ELSE << <<"lazy", "hound", "!">> >>

\* line 95: ids = [f"{filename}_{i}" for i in range(len(chunks))]
ChunkIds(filename) ==
    [i \in 1..Len(FileChunks(filename)) |-> <<filename, i - 1>>]

Range(seq) == {seq[i] : i \in 1..Len(seq)}

EmptyIndex == [corpus |-> <<>>, doc_ids |-> <<>>]

InitIndex ==
    /\ collection = {}
    /\ disk = EmptyIndex
    /\ lockHolder = 0
    /\ mem = [w \in Writers |-> EmptyIndex]
    /\ upc = [w \in Writers |-> "idle"]
    /\ ufile = [w \in Writers |-> ""]
    /\ uskipped = [w \in Writers |-> FALSE]
    /\ uploads = 0
    /\ committed = <<>>

\* lines 102-106: self.collection.upsert(documents, metadatas, ids)
collection_upsert_Lost(coll, ids) == coll
collection_upsert(coll, ids) == coll \cup Range(ids)

\* index_documents, under the lock: reload the latest on-disk snapshot
ReloadSnapshot_Stale(inMemory, onDisk) == inMemory
ReloadSnapshot(inMemory, onDisk) == onDisk

\* index_documents, under the lock: append the tokenized texts and their ids
AppendDocuments(index, texts, ids) ==
    [corpus |-> index.corpus \o [i \in 1..Len(texts) |-> tokenizer(texts[i])],
     doc_ids |-> index.doc_ids \o ids]

\* lines 63-100: a file arrives, is extracted, cleaned and chunked, and the
\* generator yields "index"
StartUpload(w, filename) ==
    /\ upc[w] = "idle"
    /\ uploads < MaxUploads
    /\ uploads' = uploads + 1
    /\ upc' = [upc EXCEPT ![w] = "index"]
    /\ ufile' = [ufile EXCEPT ![w] = filename]
    /\ uskipped' = [uskipped EXCEPT ![w] = FALSE]
    /\ UNCHANGED <<collection, disk, lockHolder, mem, committed>>
    /\ UNCHANGED <<breakerVars, cacheVars, shardVars, retrievalVars>>

\* lines 101-106: upsert to the vector store
Upsert(w) ==
    /\ upc[w] = "index"
    /\ collection' = collection_upsert(collection, ChunkIds(ufile[w]))
    /\ upc' = [upc EXCEPT ![w] = "bm25"]
    /\ UNCHANGED <<disk, lockHolder, mem, ufile, uskipped, uploads, committed>>
    /\ UNCHANGED <<breakerVars, cacheVars, shardVars, retrievalVars>>

\* lines 108-110, index_documents: the exclusive non-blocking lock is free
\* and is taken
TryLock(w) ==
    /\ upc[w] = "bm25"
    /\ lockHolder = 0
    /\ lockHolder' = w
    /\ upc' = [upc EXCEPT ![w] = "locked"]
    /\ UNCHANGED <<collection, disk, mem, ufile, uskipped, uploads, committed>>
    /\ UNCHANGED <<breakerVars, cacheVars, shardVars, retrievalVars>>

\* lines 108-113, index_documents: the lock is held by another process; the
\* call logs, skips this update and returns, and the generator yields "done"
SkipLocked(w) ==
    /\ upc[w] = "bm25"
    /\ lockHolder # 0
    /\ upc' = [upc EXCEPT ![w] = "done"]
    /\ uskipped' = [uskipped EXCEPT ![w] = TRUE]
    /\ UNCHANGED <<collection, disk, lockHolder, mem, ufile, uploads, committed>>
    /\ UNCHANGED <<breakerVars, cacheVars, shardVars, retrievalVars>>

\* index_documents, under the lock: reload
Reload(w) ==
    /\ upc[w] = "locked"
    /\ mem' = [mem EXCEPT ![w] = ReloadSnapshot(mem[w], disk)]
    /\ upc' = [upc EXCEPT ![w] = "loaded"]
    /\ UNCHANGED <<collection, disk, lockHolder, ufile, uskipped, uploads, committed>>
    /\ UNCHANGED <<breakerVars, cacheVars, shardVars, retrievalVars>>

\* index_documents, under the lock: append, recompute the statistics, persist
AppendSave(w) ==
    /\ upc[w] = "loaded"
    /\ LET texts == FileChunks(ufile[w])
           ids == ChunkIds(ufile[w])
           updated == AppendDocuments(mem[w], texts, ids)
       IN  /\ mem' = [mem EXCEPT ![w] = updated]
           /\ disk' = updated
           /\ committed' = committed \o [i \in 1..Len(ids) |-> <<ids[i], texts[i]>>]
    /\ upc' = [upc EXCEPT ![w] = "saved"]
    /\ UNCHANGED <<collection, lockHolder, ufile, uskipped, uploads>>
    /\ UNCHANGED <<breakerVars, cacheVars, shardVars, retrievalVars>>

\* lines 110-113, index_documents: release the lock and return; the generator
\* yields "done"
Release(w) ==
    /\ upc[w] = "saved"
    /\ lockHolder' = 0
    /\ upc' = [upc EXCEPT ![w] = "done"]
    /\ UNCHANGED <<collection, disk, mem, ufile, uskipped, uploads, committed>>
    /\ UNCHANGED <<breakerVars, cacheVars, shardVars, retrievalVars>>

\* the generator is exhausted; the process takes the next upload
Finish(w) ==
    /\ upc[w] = "done"
    /\ upc' = [upc EXCEPT ![w] = "idle"]
    /\ UNCHANGED <<collection, disk, lockHolder, mem, ufile, uskipped, uploads,
                   committed>>
    /\ UNCHANGED <<breakerVars, cacheVars, shardVars, retrievalVars>>

NextIndex ==
    \/ \E w \in Writers, filename \in Filenames : StartUpload(w, filename)
    \/ \E w \in Writers : Upsert(w)
    \/ \E w \in Writers : TryLock(w)
    \/ \E w \in Writers : SkipLocked(w)
    \/ \E w \in Writers : Reload(w)
    \/ \E w \in Writers : AppendSave(w)
    \/ \E w \in Writers : Release(w)
    \/ \E w \in Writers : Finish(w)

(***************************************************************************)
(* BM25Okapi scoring (rank_bm25, as called at core/retrievers.py lines 26, *)
(* 35 and 73), in fixed point: scores are thousandths.                     *)
(***************************************************************************)
\* settings.BM25_K1 = 1.5, settings.BM25_B = 0.75 and rank_bm25's
\* epsilon = 0.25 enter TermScore and Idf below as the integer ratios
\* 20 : 8 : 3 : 9 (numerator and denominator times 8 * total tokens) and 1/4.

\* 1000 * ln(x + 0.5), rounded
LogHalf(x) ==
    CASE x = 0 -> -693
      [] x = 1 -> 405
      [] x = 2 -> 916
      [] x = 3 -> 1253
      [] x = 4 -> 1504
      [] x = 5 -> 1705
      [] x = 6 -> 1872
      [] x = 7 -> 2015
      [] OTHER -> 2140

RECURSIVE Count(_, _)
\* the term frequency of t in a tokenized document
Count(doc, t) ==
    IF doc = <<>> THEN 0
    ELSE (IF Head(doc) = t THEN 1 ELSE 0) + Count(Tail(doc), t)

RECURSIVE TotalLen(_)
\* the number of tokens of a corpus
TotalLen(corpus) ==
    IF corpus = <<>> THEN 0 ELSE Len(Head(corpus)) + TotalLen(Tail(corpus))

\* the words of a corpus, and the number of documents holding a word
Vocabulary(corpus) == UNION {Range(corpus[i]) : i \in 1..Len(corpus)}
DocFreq(corpus, t) == Cardinality({i \in 1..Len(corpus) : t \in Range(corpus[i])})

\* math.log(corpus_size - freq + 0.5) - math.log(freq + 0.5)
RawIdf(corpus, t) ==
    LogHalf(Len(corpus) - DocFreq(corpus, t)) - LogHalf(DocFreq(corpus, t))

RECURSIVE SumRawIdf(_, _)
SumRawIdf(corpus, words) ==
    IF words = {} THEN 0
    ELSE LET t == CHOOSE x \in words : TRUE
         IN  RawIdf(corpus, t) + SumRawIdf(corpus, words \ {t})

\* BM25Okapi._calc_idf: a negative idf is replaced by epsilon * average_idf;
\* get_scores reads (self.idf.get(q) or 0)
Idf(corpus, t) ==
    IF t \notin Vocabulary(corpus) THEN 0
    ELSE IF RawIdf(corpus, t) < 0
         THEN SumRawIdf(corpus, Vocabulary(corpus))
                 \div (4 * Cardinality(Vocabulary(corpus)))
         ELSE RawIdf(corpus, t)

\* one query term's share of a document's score:
\* idf * tf * (k1 + 1) / (tf + k1 * (1 - b + b * doc_len / avgdl))
TermScore(corpus, doc, t) ==
    LET tf == Count(doc, t)
        total == TotalLen(corpus)
    IN  IF tf = 0 THEN 0
        ELSE (Idf(corpus, t) * tf * 20 * total)
                \div (8 * tf * total + 3 * total + 9 * Len(doc) * Len(corpus))

RECURSIVE DocScore(_, _, _)
DocScore(corpus, doc, query) ==
    IF query = <<>> THEN 0
    ELSE TermScore(corpus, doc, Head(query)) + DocScore(corpus, doc, Tail(query))

\* BM25Okapi.get_scores(tokenized_query): one score per indexed document
get_scores(corpus, query) ==
    [i \in 1..Len(corpus) |-> DocScore(corpus, corpus[i], query)]

(***************************************************************************)
(* BM25Retriever.retrieve and DistributedBM25                              *)
(***************************************************************************)
\* the documents, ids and queries handed to the sharded index
DocTexts == { <<"Quick", "Fox", ".">>, <<"lazy", "hound", "!">> }
DocIds == {"d1", "d2"}
Queries == { <<"fox">>, <<"Hound", ",", "quick">> }
TopKs == 1..MaxTopK

\* all sequences over S of length at most n
SeqsUpTo(S, n) == UNION {[1..k -> S] : k \in 0..n}

\* line 38: np.argpartition(scores, -top_k) raises ValueError unless
\* -n <= -top_k < n
KthInBounds(n, top_k) == top_k <= n /\ -top_k < n

\* lines 38-39: the index orders argpartition and argsort can produce: the
\* top_k largest scores ([-0:] is the whole array), non-increasing, the
\* order among equal scores left to numpy
TopIndices(scores, top_k) ==
    LET n == Len(scores)
        m == IF top_k = 0 THEN n ELSE top_k
    IN  {idx \in [1..m -> 1..n] :
            /\ \A i, j \in 1..m : i # j => idx[i] # idx[j]
            /\ \A i \in 1..(m - 1) : scores[idx[i]] >= scores[idx[i + 1]]
            /\ \A i \in 1..m : \A o \in (1..n) \ Range(idx) :
                  scores[o] <= scores[idx[i]]}

\* lines 29-41: what BM25Retriever.retrieve(query, top_k) can return; a
\* result is a sequence of <<doc_id, score>>
ShardRaises(shard, query, top_k) ==
    /\ shard.bm25 # None
    /\ ~KthInBounds(Len(shard.bm25), top_k)

ShardResults(shard, query, top_k) ==
    IF shard.bm25 = None THEN { <<>> }
    ELSE LET scores == get_scores(shard.bm25, tokenizer(query))
         IN  {[i \in 1..Len(idx) |-> <<shard.doc_ids[idx[i]], scores[idx[i]]>>] :
                 idx \in TopIndices(scores, top_k)}

RECURSIVE Flattened(_, _, _)
\* lines 78-86: the shard results concatenated in shard order, for every
\* combination of the shards' possible results
Flattened(shardSeq, query, top_k) ==
    IF shardSeq = <<>> THEN { <<>> }
    ELSE {r \o rest : r \in ShardResults(Head(shardSeq), query, top_k),
                      rest \in Flattened(Tail(shardSeq), query, top_k)}

RECURSIVE InsertDesc(_, _)
\* insert a pair after every pair whose score is not smaller
InsertDesc(sorted, pair) ==
    IF sorted = <<>> THEN <<pair>>
    ELSE IF Head(sorted)[2] >= pair[2]
         THEN <<Head(sorted)>> \o InsertDesc(Tail(sorted), pair)
         ELSE <<pair>> \o sorted

RECURSIVE SortedDesc(_)
\* line 91: sorted(all_results, key=lambda x: x[1], reverse=True), stable
SortedDesc(pairs) ==
    IF pairs = <<>> THEN <<>>
    ELSE InsertDesc(SortedDesc(SubSeq(pairs, 1, Len(pairs) - 1)), pairs[Len(pairs)])

RECURSIVE Dedup(_, _, _, _)
\* lines 89-96: keep the first pair of each doc_id; stop once top_k are kept
Dedup(pairs, seen, final, top_k) ==
    IF pairs = <<>> THEN final
    ELSE IF Head(pairs)[1] \in seen THEN Dedup(Tail(pairs), seen, final, top_k)
    ELSE IF Len(final) + 1 >= top_k THEN Append(final, Head(pairs))
    ELSE Dedup(Tail(pairs), seen \cup {Head(pairs)[1]}, Append(final, Head(pairs)), top_k)

\* line 61: the current shard is full
ShardFull_OffByOne(n) == n > shard_size
ShardFull(n) == n >= shard_size

RECURSIVE AppendPairs(_, _, _, _)
\* lines 59-68: each (doc, doc_id) of zip(docs, doc_ids) goes to the last
\* shard, a new shard being opened first when there is none or it is full;
\* the result is <<shards, doc_id_to_shard>>
AppendPairs(shardSeq, idMap, docs, doc_ids) ==
    IF docs = <<>> \/ doc_ids = <<>> THEN <<shardSeq, idMap>>
    ELSE LET opened ==
                 IF shardSeq = <<>> \/ ShardFull(Len(shardSeq[Len(shardSeq)].corpus))
                 THEN Append(shardSeq, [corpus |-> <<>>, doc_ids |-> <<>>, bm25 |-> None])
                 ELSE shardSeq
             last == Len(opened)
             filled ==
                 [opened EXCEPT
                    ![last].corpus = Append(@, tokenizer(Head(docs))),
                    ![last].doc_ids = Append(@, Head(doc_ids))]
         IN  AppendPairs(filled, (Head(doc_ids) :> (last - 1)) @@ idMap,
                         Tail(docs), Tail(doc_ids))

\* lines 70-73: every shard with a corpus gets a BM25Okapi built on it
Rebuild(shardSeq) ==
    [i \in 1..Len(shardSeq) |->
        IF shardSeq[i].corpus # <<>>
        THEN [shardSeq[i] EXCEPT !.bm25 = shardSeq[i].corpus]
        ELSE shardSeq[i]]

NoRetrieve == [kind |-> "none", query |-> <<>>, top_k |-> 0, results |-> <<>>,
               flat |-> <<>>]

InitShards ==
    /\ shards = <<>>
    /\ doc_id_to_shard = [d \in {} |-> 0]
    /\ added = 0
    /\ dres = NoRetrieve

Min(a, b) == IF a <= b THEN a ELSE b
\* list[:n]
FirstN(list, n) == SubSeq(list, 1, Min(n, Len(list)))

\* lines 52-73: add_documents(docs, doc_ids), the body under self.lock
add_documents(docs, doc_ids) ==
    /\ added + Min(Len(docs), Len(doc_ids)) <= MaxDocs
    /\ LET appended == AppendPairs(shards, doc_id_to_shard, docs, doc_ids)
       IN  /\ shards' = Rebuild(appended[1])
           /\ doc_id_to_shard' = appended[2]
    /\ added' = added + Min(Len(docs), Len(doc_ids))
    /\ dres' = NoRetrieve
    /\ UNCHANGED <<breakerVars, cacheVars, indexVars, retrievalVars>>

\* lines 75-81: a shard search raises, and with it the gather and retrieve
retrieve_raises(query, top_k) ==
    /\ \E i \in 1..Len(shards) : ShardRaises(shards[i], query, top_k * 2)
    /\ dres' = [kind |-> "raised", query |-> query, top_k |-> top_k,
                results |-> <<>>, flat |-> <<>>]
    /\ UNCHANGED <<shards, doc_id_to_shard, added>>
    /\ UNCHANGED <<breakerVars, cacheVars, indexVars, retrievalVars>>

\* lines 75-98: every shard search returns; merge, sort, deduplicate, cut
retrieve_returns(query, top_k) ==
    /\ \A i \in 1..Len(shards) : ~ShardRaises(shards[i], query, top_k * 2)
    /\ \E all_results \in Flattened(shards, query, top_k * 2) :
          dres' = [kind |-> "ok", query |-> query, top_k |-> top_k,
                   results |-> Dedup(SortedDesc(all_results), {}, <<>>, top_k),
                   flat |-> all_results]
    /\ UNCHANGED <<shards, doc_id_to_shard, added>>
    /\ UNCHANGED <<breakerVars, cacheVars, indexVars, retrievalVars>>

NextShards ==
    \/ \E docs \in SeqsUpTo(DocTexts, MaxBatch), doc_ids \in SeqsUpTo(DocIds, MaxBatch) :
          add_documents(docs, doc_ids)
    \/ \E query \in Queries, top_k \in TopKs : retrieve_raises(query, top_k)
    \/ \E query \in Queries, top_k \in TopKs : retrieve_returns(query, top_k)

(***************************************************************************)
(* One BM25Retriever used on its own: fit and retrieve                     *)
(* (core/retrievers.py lines 11-41).                                       *)
(***************************************************************************)
\* the documents, ids and queries handed to the retriever
FitTexts == { <<"the", "quick", "brown", "fox">>,
              <<"machine", "learning", "is", "fascinating">>,
              <<"fox", "and", "hound">> }
FitIdNames == <<"d1", "d2", "d3", "d4", "d5">>
FitIds(n) == [i \in 1..n |-> FitIdNames[i]]
FitQueries == { <<"quick", "fox">>, <<"!">> }
\* the document lists handed to fit: no text twice
FitDocuments ==
    {d \in SeqsUpTo(FitTexts, MaxFit) : \A i, j \in 1..Len(d) : i # j => d[i] # d[j]}

\* line 26: BM25Okapi(corpus) divides by the corpus size (avgdl) and by the
\* vocabulary size (average_idf); either being zero raises ZeroDivisionError
BuildRaises(corpus) == corpus = <<>> \/ Vocabulary(corpus) = {}

NoCall == [kind |-> "none", query |-> <<>>, top_k |-> 0, results |-> <<>>,
           idx |-> <<>>]

InitRetriever ==
    /\ r_corpus = <<>>
    /\ r_doc_ids = <<>>
    /\ r_bm25 = None
    /\ rres = NoCall

\* lines 22-27: fit(documents, doc_ids); corpus and doc_ids are assigned
\* before BM25Okapi is built, so a build that raises leaves self.bm25 as it was
fit(documents, doc_ids) ==
    LET tokenized == [i \in 1..Len(documents) |-> tokenizer(documents[i])]
    IN  /\ r_corpus' = tokenized
        /\ r_doc_ids' = doc_ids
        /\ r_bm25' = IF BuildRaises(tokenized) THEN r_bm25 ELSE tokenized
        /\ rres' = [NoCall EXCEPT
                      !.kind = IF BuildRaises(tokenized) THEN "fit_raised" ELSE "fit"]
        /\ UNCHANGED <<breakerVars, cacheVars, indexVars, shardVars, serviceVars, pipelineVars>>

\* lines 29-41: retrieve(query, top_k): [] without an index; ValueError from
\* np.argpartition when top_k is out of bounds; IndexError from
\* self.doc_ids[idx] when doc_ids is shorter than the scored corpus
BM25Retriever_retrieve(query, top_k) ==
    /\ IF r_bm25 = None
       THEN rres' = [NoCall EXCEPT !.kind = "ok", !.query = query, !.top_k = top_k]
       ELSE IF ~KthInBounds(Len(r_bm25), top_k)
       THEN rres' = [NoCall EXCEPT !.kind = "ValueError", !.query = query,
                                   !.top_k = top_k]
       ELSE LET scores == get_scores(r_bm25, tokenizer(query))
            IN  \E idx \in TopIndices(scores, top_k) :
                   IF \E i \in 1..Len(idx) : idx[i] > Len(r_doc_ids)
                   THEN rres' = [NoCall EXCEPT !.kind = "IndexError",
                                    !.query = query, !.top_k = top_k]
                   ELSE rres' =
                          [kind |-> "ok", query |-> query, top_k |-> top_k,
                           results |-> [i \in 1..Len(idx) |->
                                          <<r_doc_ids[idx[i]], scores[idx[i]]>>],
                           idx |-> idx]
    /\ UNCHANGED <<r_corpus, r_doc_ids, r_bm25>>
    /\ UNCHANGED <<breakerVars, cacheVars, indexVars, shardVars, serviceVars, pipelineVars>>

NextRetriever ==
    \/ \E documents \in FitDocuments, n \in 0..MaxFit :
          fit(documents, FitIds(n))
    \/ \E query \in FitQueries, top_k \in TopKs : BM25Retriever_retrieve(query, top_k)


(***************************************************************************)
(* RAGService._fuse_results_rrf (services/rag_service.py lines 163-193).   *)
(* Fused scores are exact fractions <<numerator, denominator>>.            *)
(***************************************************************************)
\* line 168: k: int = 60
rrf_k == 60

FracAdd(x, y) == <<x[1] * y[2] + y[1] * x[2], x[2] * y[2]>>
FracGreater(x, y) == x[1] * y[2] > y[1] * x[2]
FracEqual(x, y) == x[1] * y[2] = y[1] * x[2]

\* the ids of the candidates, and the ranked lists the two searches hand
\* over: the vector store's hits and the lexical results name no id twice
CandIds == {"a", "b", "c"}
RankedLists ==
    {l \in SeqsUpTo(CandIds, MaxList) : \A i, j \in 1..Len(l) : i # j => l[i] # l[j]}
NResults == 1..MaxList

\* the 1-based place of id in a list that holds it
Position(list, id) == CHOOSE p \in 1..Len(list) : list[p] = id

\* line 177: enumerate(zip(sem_ids, distances)) numbers the hits from 0;
\* line 182: enumerate(keyword, 1) numbers the results from 1
SemRank(p) == p - 1
KeyRank(p) == p

\* lines 177-179 and 182-183: scores[doc_id] += 1 / (k + rank)
SemScore(sem_ids, id) ==
    IF id \in Range(sem_ids)
    THEN <<1, rrf_k + SemRank(Position(sem_ids, id))>> ELSE <<0, 1>>
KeyScore(keyword, id) ==
    IF id \in Range(keyword)
    THEN <<1, rrf_k + KeyRank(Position(keyword, id))>> ELSE <<0, 1>>

\* the keys of the scores dict in insertion order: the semantic ids, then the
\* keyword ids not seen before
ScoreKeys(sem_ids, keyword) ==
    sem_ids \o SelectSeq(keyword, LAMBDA id : id \notin Range(sem_ids))

\* line 186: reverse=True puts the larger score first
FusedBefore_Ascending(x, y) == ~FracGreater(x, y)
FusedBefore(x, y) == ~FracGreater(y, x)

RECURSIVE InsertFused(_, _)
\* insert an item <<id, score>> after every item that may stay before it
InsertFused(sorted, item) ==
    IF sorted = <<>> THEN <<item>>
    ELSE IF FusedBefore(Head(sorted)[2], item[2])
         THEN <<Head(sorted)>> \o InsertFused(Tail(sorted), item)
         ELSE <<item>> \o sorted

RECURSIVE SortedFused(_)
\* line 186: sorted(scores.items(), key=lambda x: x[1], reverse=True), stable
SortedFused(items) ==
    IF items = <<>> THEN <<>>
    ELSE InsertFused(SortedFused(SubSeq(items, 1, Len(items) - 1)), items[Len(items)])

\* lines 171-193: the scores dict and the ids of sorted_docs[:n_results]
FusedScores(sem_ids, keyword) ==
    [id \in Range(sem_ids) \cup Range(keyword) |->
        FracAdd(SemScore(sem_ids, id), KeyScore(keyword, id))]

_fuse_results_rrf(sem_ids, keyword, n_results) ==
    LET keys == ScoreKeys(sem_ids, keyword)
        scores == FusedScores(sem_ids, keyword)
        sorted_docs == SortedFused([i \in 1..Len(keys) |-> <<keys[i], scores[keys[i]]>>])
    IN  [i \in 1..Min(n_results, Len(sorted_docs)) |-> sorted_docs[i][1]]

\* a call of _fuse_results_rrf(semantic, keyword, n_results)
Fuse(sem_ids, keyword, n_results) ==
    /\ fres' = [kind |-> "ok", sem |-> sem_ids, key |-> keyword,
                n_results |-> n_results,
                scores |-> FusedScores(sem_ids, keyword),
                ids |-> _fuse_results_rrf(sem_ids, keyword, n_results)]
    /\ UNCHANGED <<hres, kres, qres, qcalls>>
    /\ UNCHANGED <<breakerVars, cacheVars, indexVars, shardVars, retrieverVars, pipelineVars>>

NextFusion ==
    \E sem_ids \in RankedLists, keyword \in RankedLists, n_results \in NResults :
       Fuse(sem_ids, keyword, n_results)

(***************************************************************************)
(* RAGService.hybrid_search (services/rag_service.py lines 133-161).       *)
(***************************************************************************)
\* lines 142-155: asyncio.gather(sem_task, key_task) without
\* return_exceptions re-raises the exception of a task that failed; sem_ok
\* and key_ok say whether collection.query and self.bm25.retrieve returned
hybrid_search_raises(sem_ok, key_ok) ==
    /\ ~(sem_ok /\ key_ok)
    /\ hres' = [kind |-> "raised", sem_ok |-> sem_ok, key_ok |-> key_ok]
    /\ UNCHANGED <<fres, kres, qres, qcalls>>
    /\ UNCHANGED <<breakerVars, cacheVars, indexVars, shardVars, retrieverVars, pipelineVars>>

\* lines 155-161: both tasks returned; their results are fused and returned
hybrid_search_returns(sem_ids, keyword, n_results) ==
    /\ hres' = [kind |-> "ok", sem_ok |-> TRUE, key_ok |-> TRUE,
                sem |-> sem_ids, key |-> keyword, n_results |-> n_results,
                ids |-> _fuse_results_rrf(sem_ids, keyword, n_results)]
    /\ UNCHANGED <<fres, kres, qres, qcalls>>
    /\ UNCHANGED <<breakerVars, cacheVars, indexVars, shardVars, retrieverVars, pipelineVars>>

NextHybrid ==
    \/ \E sem_ok \in BOOLEAN, key_ok \in BOOLEAN : hybrid_search_raises(sem_ok, key_ok)
    \/ \E sem_ids \in RankedLists, keyword \in RankedLists, n_results \in NResults :
          hybrid_search_returns(sem_ids, keyword, n_results)

(***************************************************************************)
(* The re-ranking stage of RAGService.answer_question_stream               *)
(* (rag_service.py lines 184-198).                                         *)
(***************************************************************************)
\* the passages fetched for the fused ids, in fused order (final_docs of
\* line 180), and the scores self.cross_encoder.predict can give a passage
Passages == <<"p1", "p2", "p3", "p4", "p5">>
CrossScores == {-11, -10, -9, 5}
\* line 190: score > -10.0
PassesFloor_Inclusive(score) == score >= -10
PassesFloor(score) == score > -10

\* lines 185-198 on final_docs; scores[i] is the cross-encoder's score of
\* final_docs[i]
RerankStage(final_docs, scores, top_k, cross_encoder) ==
    IF cross_encoder /\ final_docs # <<>>
    THEN LET scored_docs ==
                 SortedDesc([i \in 1..Len(final_docs) |-> <<final_docs[i], scores[i]>>])
             passing == SelectSeq(scored_docs, LAMBDA x : PassesFloor(x[2]))
             filtered_docs == [i \in 1..Len(passing) |-> passing[i][1]]
         IN  IF filtered_docs = <<>> THEN FirstN(final_docs, 3)
             ELSE FirstN(filtered_docs, top_k)
    ELSE FirstN(final_docs, top_k)

\* the request reaches the stage, once, with n fetched passages (line 170
\* keeps at most top_k * 3 fused ids)
Rerank(n, scores, top_k, cross_encoder) ==
    /\ kres.kind = "none"
    /\ n <= top_k * 3
    /\ kres' = [kind |-> "ok", final_docs |-> FirstN(Passages, n), scores |-> scores,
                top_k |-> top_k, cross_encoder |-> cross_encoder,
                handed |-> RerankStage(FirstN(Passages, n), scores, top_k,
                                       cross_encoder)]
    /\ UNCHANGED <<fres, hres, qres, qcalls>>
    /\ UNCHANGED <<breakerVars, cacheVars, indexVars, shardVars, retrieverVars, pipelineVars>>

NextRerank ==
    \E n \in 0..MaxCands, top_k \in TopKs, cross_encoder \in BOOLEAN :
       \E scores \in [1..n -> CrossScores] : Rerank(n, scores, top_k, cross_encoder)

(***************************************************************************)
(* RAGService.query_expansion (services/rag_service.py lines 101-131): the *)
(* coroutine function _expand decorated with self.circuit.                 *)
(***************************************************************************)
\* what the expansion service does once the coroutine is awaited under
\* asyncio.wait_for(..., timeout=5.0)
ServiceBehaviours == {"answers", "raises", "times_out"}

\* failed expansions in a row up to the last call
FailedInARow == IF qres.kind = "none" THEN 0 ELSE qres.failed

\* lines 127-131 around the wrapper (circuit_breaker.py lines 18-36): the
\* wrapper runs _expand(*args), which only builds the coroutine object and
\* cannot raise, so the try block always takes lines 27-30; the service is
\* contacted, and may fail, when wait_for awaits the coroutine, outside the
\* wrapper; every exception ends in `return [query]`
query_expansion(behaviour) ==
    LET rejected == state = "OPEN" /\ ~WindowElapsed
        recovering == ~rejected /\ state \in {"OPEN", "HALF-OPEN"}
        failed == ~rejected /\ behaviour # "answers"
    IN  /\ qcalls < MaxCalls
        /\ qcalls' = qcalls + 1
        /\ state' = IF recovering THEN "CLOSED" ELSE state
        /\ failures' = IF recovering THEN 0 ELSE failures
        /\ qres' = [kind |-> IF rejected THEN "rejected" ELSE behaviour,
                    contacted |-> ~rejected,
                    result |-> IF ~rejected /\ behaviour = "answers"
                               THEN "expanded" ELSE "unexpanded",
                    failed |-> IF failed THEN FailedInARow + 1
                               ELSE IF rejected THEN FailedInARow ELSE 0,
                    at |-> now]
        /\ UNCHANGED <<last_failure_time, now, cpc, outcome, calls, invoked, trial,
                       opened_at>>
        /\ UNCHANGED <<fres, hres, kres>>
        /\ UNCHANGED <<cacheVars, indexVars, shardVars, retrieverVars, pipelineVars>>

NextExpansion ==
    \/ Tick
    \/ \E behaviour \in ServiceBehaviours : query_expansion(behaviour)

(***************************************************************************)
(* SemanticChunker and ParentChildChunker (core/chunkers.py).              *)
(*                                                                         *)
(* A page_content is given as the sequence of parts that the re.split of   *)
(* line 31 yields; " " stands for a part of white space only.  An          *)
(* embedding is a vector of two integers.  Indices into the sentence list  *)
(* are 0-based, as in the code; TLA+ sequences are 1-based, so sentence j  *)
(* is sentences[j + 1].  Formatted strings are the tuples of their pieces. *)
(* Arithmetic is exact (no floating-point rounding).                       *)
(***************************************************************************)
\* pages as loader.load yields them: three pages of a.pdf, two of b.pdf (one
\* of them blank) and a document whose metadata has no source
ChunkerDocs ==
    { [page_content |-> <<"s1">>, metadata |-> [source |-> "a.pdf", page |-> 0]],
      [page_content |-> <<"s3", " ">>, metadata |-> [source |-> "a.pdf", page |-> 1]],
      [page_content |-> <<"s1", "s2">>, metadata |-> [source |-> "a.pdf", page |-> 2]],
      [page_content |-> <<"s2">>, metadata |-> [source |-> "b.pdf", page |-> 0]],
      [page_content |-> <<"">>, metadata |-> [source |-> "b.pdf", page |-> 1]],
      [page_content |-> <<"s1">>, metadata |-> [page |-> 0]] }
DocumentLists == UNION {[1..n -> ChunkerDocs] : n \in 0..MaxDocuments}

EmbeddingVectors == {<<1, 0>>, <<1, 2>>, <<0, 1>>, <<0, 0>>}
EmbeddingLists == UNION {[1..n -> EmbeddingVectors] : n \in 0..MaxSentences}
\* a vector is a Python list (what get_embedding, tolist() and json.loads
\* return) or a numpy array
ElementTypes == {"list", "ndarray"}
\* thresholds as <<numerator, denominator>>
SEMANTIC_CHUNK_THRESHOLD == <<7, 10>>
Thresholds == {SEMANTIC_CHUNK_THRESHOLD, <<19, 20>>}
\* get_embedding without / with the _dynamic_embed_fn override
EmbedFns == {"fallback", "dynamic"}

\* part.strip()
Strip(part) == IF part = " " THEN "" ELSE part

\* lines 32-37 for one document
RECURSIVE DocSentences(_, _)
DocSentences(parts, metadata) ==
    IF parts = <<>> THEN <<>>
    ELSE (IF Strip(Head(parts)) # ""
          THEN <<[text |-> Strip(Head(parts)), metadata |-> metadata]>>
          ELSE <<>>) \o DocSentences(Tail(parts), metadata)

\* lines 25-38: the sentences of all documents, in one list
RECURSIVE sentencize(_)
sentencize(documents) ==
    IF documents = <<>> THEN <<>>
    ELSE DocSentences(Head(documents).page_content, Head(documents).metadata)
            \o sentencize(Tail(documents))

Dot(a, b) == a[1] * b[1] + a[2] * b[2]

RECURSIVE DivPow10(_, _)
DivPow10(y, k) == IF k = 0 THEN y ELSE DivPow10(y \div 10, k - 1)

\* line 47: the factor 1e-10 inside the second norm, as its exponent
NormScaleExp == 10

\* lines 46-49 on numpy arrays: similarity < threshold, where
\* similarity = dot / (|prev| * |cur * 1e-10|).  A zero vector makes the
\* quotient 0/0 = nan, which is below nothing.  Otherwise the test is
\*    dot * den * 10^10 < num * |prev| * |cur|,
\* decided on the squares when dot > 0:
\*    dot^2 * den^2 * 10^20 < num^2 * |prev|^2 * |cur|^2.
SimilarityBelow(prev, cur, threshold) ==
    LET dot == Dot(prev, cur)
        rhs == threshold[1] * threshold[1] * Dot(prev, prev) * Dot(cur, cur)
    IN  IF Dot(prev, prev) = 0 \/ Dot(cur, cur) = 0 THEN FALSE
        ELSE IF dot <= 0 THEN TRUE
        ELSE dot * dot * threshold[2] * threshold[2]
                <= DivPow10(rhs - 1, 2 * NormScaleExp)

\* lines 45-50: the indices i in from..len-1 that are appended
RECURSIVE Breaks(_, _, _)
Breaks(vectors, threshold, i) ==
    IF i >= Len(vectors) THEN <<>>
    ELSE (IF SimilarityBelow(vectors[i], vectors[i + 1], threshold)
          THEN <<i>> ELSE <<>>) \o Breaks(vectors, threshold, i + 1)

\* lines 40-52.  On Python lists the product embeddings[i] * 1e-10 of line 47
\* raises TypeError the first time the loop body runs.
find_breakpoints(embeddings, threshold) ==
    IF embeddings.vectors = <<>> THEN [kind |-> "ok", value |-> <<>>]
    ELSE IF Len(embeddings.vectors) >= 2 /\ embeddings.element_type = "list"
         THEN [kind |-> "TypeError"]
    ELSE [kind |-> "ok", value |-> <<0>> \o Breaks(embeddings.vectors, threshold, 1)]

\* lines 54-62
get_embedding(text, embedder) ==
    IF embedder = "fallback" THEN <<0, 0>>
    ELSE CASE text = "s1" -> <<1, 0>>
           [] text = "s2" -> <<1, 2>>
           [] OTHER -> <<0, 1>>

\* caching.py lines 71-78: the stored or the fresh embedding of the text,
\* which reaches the caller as a Python list either way
get_or_create(text, embedder) == get_embedding(text, embedder)

\* line 94: ". ".join(...)
RECURSIVE Join(_)
Join(texts) ==
    IF Len(texts) <= 1 THEN texts
    ELSE <<Head(texts), ". ">> \o Join(Tail(texts))

\* line 101: f"{start}-{end}"
FormatRange(start, end) == <<start, "-", end>>

\* lines 91-103: the chunk of breakpoints[i]
MakeChunk(sentences, breakpoints, i) ==
    LET start == breakpoints[i]
        end == IF i + 1 <= Len(breakpoints) THEN breakpoints[i + 1] ELSE Len(sentences)
    IN  [page_content |-> Join([j \in 1..(end - start) |-> sentences[start + j].text]),
         metadata |-> ("chunk_type" :> "semantic")
                         @@ ("sentence_range" :> FormatRange(start, end))
                         @@ sentences[start + 1].metadata]

\* lines 70-105 (an embedding cache is configured)
chunk_semantically(documents, embedder) ==
    LET sentences == sentencize(documents)
        embeddings == [element_type |-> "list",
                       vectors |-> [j \in 1..Len(sentences) |->
                                       get_or_create(sentences[j].text, embedder)]]
        breakpoints == find_breakpoints(embeddings, SEMANTIC_CHUNK_THRESHOLD)
    IN  IF breakpoints.kind # "ok" THEN [kind |-> breakpoints.kind]
        ELSE [kind |-> "ok",
              chunks |-> [i \in 1..Len(breakpoints.value) |->
                             MakeChunk(sentences, breakpoints.value, i)]]

\* doc.metadata.get(key, default)
MetadataGet(metadata, key, default) ==
    IF key \in DOMAIN metadata THEN metadata[key] ELSE default

\* lines 136-140: the splitter cuts a text longer than CHUNK_SIZE // 2 into
\* pieces; "s3" stands for such a text and is cut in two
SplitText(text) ==
    IF text = "s3" THEN << <<text, 1>>, <<text, 2>> >> ELSE << <<text, 1>> >>

RECURSIVE split_documents(_)
split_documents(page_content) ==
    IF page_content = <<>> THEN <<>>
    ELSE (IF Head(page_content) = ". " THEN <<>> ELSE SplitText(Head(page_content)))
            \o split_documents(Tail(page_content))

\* lines 125-148 for the parent chunks from parent_idx on
RECURSIVE ParentAndChildren(_, _, _)
ParentAndChildren(doc, parent_chunks, parent_idx) ==
    IF parent_idx >= Len(parent_chunks) THEN <<>>
    ELSE LET parent_id == <<MetadataGet(doc.metadata, "source", "doc"), "_p", parent_idx>>
             parent_chunk ==
                 [page_content |-> parent_chunks[parent_idx + 1].page_content,
                  metadata |-> ("chunk_type" :> "parent") @@ ("parent_id" :> parent_id)
                                  @@ parent_chunks[parent_idx + 1].metadata]
             pieces == split_documents(parent_chunk.page_content)
             child_chunks ==
                 [c \in 1..Len(pieces) |->
                     [page_content |-> pieces[c],
                      metadata |-> ("chunk_type" :> "child") @@ ("parent_id" :> parent_id)
                                      @@ ("child_id" :> parent_id \o <<"_c", c - 1>>)
                                      @@ parent_chunk.metadata]]
         IN  <<parent_chunk>> \o child_chunks
                \o ParentAndChildren(doc, parent_chunks, parent_idx + 1)

\* lines 117-150; an exception of chunk_semantically ends the call
RECURSIVE chunk_with_parent_child(_, _)
chunk_with_parent_child(documents, embedder) ==
    IF documents = <<>> THEN [kind |-> "ok", chunks |-> <<>>]
    ELSE LET parents == chunk_semantically(<<Head(documents)>>, embedder)
             rest == chunk_with_parent_child(Tail(documents), embedder)
         IN  IF parents.kind # "ok" THEN [kind |-> parents.kind]
             ELSE IF rest.kind # "ok" THEN rest
             ELSE [kind |-> "ok",
                   chunks |-> ParentAndChildren(Head(documents), parents.chunks, 0)
                                 \o rest.chunks]

InitChunker == cres = [kind |-> "none"]

\* one call of find_breakpoints
FindBreakpoints(element_type, vectors, threshold) ==
    /\ cres.kind = "none"
    /\ cres' = [kind |-> "breakpoints", element_type |-> element_type,
                vectors |-> vectors, threshold |-> threshold,
                result |-> find_breakpoints([element_type |-> element_type,
                                             vectors |-> vectors], threshold)]
    /\ UNCHANGED <<breakerVars, cacheVars, indexVars, shardVars, retrieverVars,
                   serviceVars, concurrentVars, answerVars>>

\* one call of chunk_semantically
SemanticChunking(documents, embedder) ==
    /\ cres.kind = "none"
    /\ cres' = [kind |-> "semantic", documents |-> documents, embedder |-> embedder,
                result |-> chunk_semantically(documents, embedder)]
    /\ UNCHANGED <<breakerVars, cacheVars, indexVars, shardVars, retrieverVars,
                   serviceVars, concurrentVars, answerVars>>

\* one call of chunk_with_parent_child
ParentChildChunking(documents, embedder) ==
    /\ cres.kind = "none"
    /\ cres' = [kind |-> "parent_child", documents |-> documents, embedder |-> embedder,
                result |-> chunk_with_parent_child(documents, embedder)]
    /\ UNCHANGED <<breakerVars, cacheVars, indexVars, shardVars, retrieverVars,
                   serviceVars, concurrentVars, answerVars>>

NextChunker ==
    \/ \E element_type \in ElementTypes, vectors \in EmbeddingLists,
          threshold \in Thresholds : FindBreakpoints(element_type, vectors, threshold)
    \/ \E documents \in DocumentLists, embedder \in EmbedFns :
          SemanticChunking(documents, embedder)
    \/ \E documents \in DocumentLists, embedder \in EmbedFns :
          ParentChildChunking(documents, embedder)

(***************************************************************************)
(* DistributedBM25 with retrieve running beside add_documents              *)
(* (core/retrievers.py lines 52-98).  add_documents runs on the event loop *)
(* under self.lock; the shard searches of retrieve run in worker threads   *)
(* (asyncio.to_thread) and take no lock, so each of their reads of a shard *)
(* falls between two steps of add_documents.                               *)
(***************************************************************************)
NoWriter == [stage |-> "idle", docs |-> <<>>, doc_ids |-> <<>>, shard |-> 0]
NoGather == [kind |-> "none", query |-> <<>>, top_k |-> 0, results |-> <<>>]
NoThread == [stage |-> "start", bm25 |-> None, idx |-> <<>>, results |-> <<>>]

InitConcurrent ==
    /\ wpc = NoWriter
    /\ tpc = <<>>
    /\ gres = NoGather

\* line 58: add_documents(docs, doc_ids) has acquired self.lock; the ids are
\* the next unused ones
AddBegin(docs) ==
    /\ wpc.stage = "idle"
    /\ docs # <<>>
    /\ added + Len(docs) <= MaxIndexed
    /\ wpc' = [stage |-> "corpus", docs |-> docs,
               doc_ids |-> [i \in 1..Len(docs) |-> FitIdNames[added + i]], shard |-> 1]
    /\ added' = added + Len(docs)
    /\ UNCHANGED <<shards, doc_id_to_shard, dres, tpc, gres>>
    /\ UNCHANGED <<breakerVars, cacheVars, indexVars, retrieverVars, serviceVars,
                   chunkerVars, answerVars>>

\* lines 59-68, one list operation at a time: lines 60-66 open a shard when
\* needed and append to the corpus, lines 67-68 append the doc_id
AddAppend ==
    /\ wpc.stage \in {"corpus", "ids"}
    /\ IF wpc.stage = "corpus"
       THEN LET opened ==
                    IF shards = <<>>
                          \/ Len(shards[Len(shards)].corpus) >= reader_shard_size
                    THEN Append(shards, [corpus |-> <<>>, doc_ids |-> <<>>, bm25 |-> None])
                    ELSE shards
            IN  /\ shards' = [opened EXCEPT
                                ![Len(opened)].corpus = Append(@, tokenizer(Head(wpc.docs)))]
                /\ wpc' = [wpc EXCEPT !.stage = "ids"]
                /\ UNCHANGED doc_id_to_shard
       ELSE /\ shards' = [shards EXCEPT
                             ![Len(shards)].doc_ids = Append(@, Head(wpc.doc_ids))]
            /\ doc_id_to_shard' = (Head(wpc.doc_ids) :> (Len(shards) - 1)) @@ doc_id_to_shard
            /\ wpc' = [wpc EXCEPT !.docs = Tail(@), !.doc_ids = Tail(@),
                                  !.stage = IF Len(wpc.docs) > 1 THEN "corpus"
                                            ELSE "rebuild"]
    /\ UNCHANGED <<added, dres, tpc, gres>>
    /\ UNCHANGED <<breakerVars, cacheVars, indexVars, retrieverVars, serviceVars,
                   chunkerVars, answerVars>>

\* lines 70-73, one shard at a time; after the last shard the lock is released
AddRebuild ==
    /\ wpc.stage = "rebuild"
    /\ shards' = [shards EXCEPT ![wpc.shard].bm25 =
                     IF shards[wpc.shard].corpus # <<>>
                     THEN shards[wpc.shard].corpus ELSE @]
    /\ wpc' = IF wpc.shard = Len(shards) THEN NoWriter
              ELSE [wpc EXCEPT !.shard = @ + 1]
    /\ UNCHANGED <<doc_id_to_shard, added, dres, tpc, gres>>
    /\ UNCHANGED <<breakerVars, cacheVars, indexVars, retrieverVars, serviceVars,
                   chunkerVars, answerVars>>

\* lines 78-81: retrieve starts one worker thread per shard there is now
RetrieveBegin(query, top_k) ==
    /\ gres.kind # "running"
    /\ tpc' = [i \in 1..Len(shards) |-> NoThread]
    /\ gres' = [kind |-> "running", query |-> query, top_k |-> top_k, results |-> <<>>]
    /\ UNCHANGED <<shards, doc_id_to_shard, added, dres, wpc>>
    /\ UNCHANGED <<breakerVars, cacheVars, indexVars, retrieverVars, serviceVars,
                   chunkerVars, answerVars>>

\* BM25Retriever.retrieve in the worker thread of shard i.  Lines 31-39 read
\* self.bm25 and rank its scores; line 41 reads self.doc_ids afterwards.
ThreadStep(i) ==
    /\ gres.kind = "running"
    /\ i \in 1..Len(tpc)
    /\ tpc[i].stage \in {"start", "scored"}
    /\ IF tpc[i].stage = "start"
       THEN IF shards[i].bm25 = None
            THEN tpc' = [tpc EXCEPT ![i].stage = "done"]
            ELSE IF ~KthInBounds(Len(shards[i].bm25), gres.top_k * 2)
            THEN tpc' = [tpc EXCEPT ![i].stage = "ValueError"]
            ELSE \E idx \in TopIndices(get_scores(shards[i].bm25, tokenizer(gres.query)),
                                       gres.top_k * 2) :
                    tpc' = [tpc EXCEPT ![i].stage = "scored",
                                       ![i].bm25 = shards[i].bm25, ![i].idx = idx]
       ELSE IF \E k \in 1..Len(tpc[i].idx) : tpc[i].idx[k] > Len(shards[i].doc_ids)
            THEN tpc' = [tpc EXCEPT ![i].stage = "IndexError"]
            ELSE tpc' = [tpc EXCEPT
                           ![i].stage = "done",
                           ![i].results =
                               [k \in 1..Len(tpc[i].idx) |->
                                   <<shards[i].doc_ids[tpc[i].idx[k]],
                                     get_scores(tpc[i].bm25,
                                                tokenizer(gres.query))[tpc[i].idx[k]]>>]]
    /\ UNCHANGED <<shards, doc_id_to_shard, added, dres, wpc, gres>>
    /\ UNCHANGED <<breakerVars, cacheVars, indexVars, retrieverVars, serviceVars,
                   chunkerVars, answerVars>>

RECURSIVE Extended(_)
\* lines 84-86: all_results.extend(results) for each thread in shard order
Extended(threads) ==
    IF threads = <<>> THEN <<>>
    ELSE Head(threads).results \o Extended(Tail(threads))

\* lines 78-98 once every thread has ended: the gather raises what a thread
\* raised, or the results are merged, sorted, deduplicated and cut
Gather ==
    /\ gres.kind = "running"
    /\ \A i \in 1..Len(tpc) : tpc[i].stage \notin {"start", "scored"}
    /\ gres' = IF \E i \in 1..Len(tpc) : tpc[i].stage # "done"
               THEN [gres EXCEPT !.kind = "raised"]
               ELSE [gres EXCEPT !.kind = "ok",
                                 !.results = Dedup(SortedDesc(Extended(tpc)), {}, <<>>,
                                                   gres.top_k)]
    /\ UNCHANGED <<shards, doc_id_to_shard, added, dres, wpc, tpc>>
    /\ UNCHANGED <<breakerVars, cacheVars, indexVars, retrieverVars, serviceVars,
                   chunkerVars, answerVars>>

NextConcurrent ==
    \/ \E docs \in SeqsUpTo(DocTexts, MaxBatch) : AddBegin(docs)
    \/ AddAppend
    \/ AddRebuild
    \/ \E query \in Queries, top_k \in TopKs : RetrieveBegin(query, top_k)
    \/ \E i \in 1..MaxIndexed : ThreadStep(i)
    \/ Gather

(***************************************************************************)
(* RAGService (rag_service.py): uploads, delete_document and the retrieval *)
(* of answer_question_stream over the vector store and the lexical index.  *)
(* An upload is taken as a whole here; PersistedBM25Retriever.retrieve and *)
(* reciprocal_rank_fusion are imported from core.retrievers, which does    *)
(* not define them: they follow the specification's sections 4.1 and 4.3.  *)
(***************************************************************************)
InitAnswers ==
    /\ removed = {}
    /\ ares = [kind |-> "none"]

\* document_processor.py lines 63-113 as one step: the chunks are upserted
\* to the vector store, then appended to the lexical index unless its file
\* lock is held by another process
UploadFile(filename, lock_busy) ==
    /\ uploads < MaxStored
    /\ uploads' = uploads + 1
    /\ collection' = collection_upsert(collection, ChunkIds(filename))
    /\ disk' = IF lock_busy THEN disk
               ELSE AppendDocuments(ReloadSnapshot(disk, disk), FileChunks(filename),
                                    ChunkIds(filename))
    /\ committed' = IF lock_busy THEN committed
                    ELSE committed \o [i \in 1..Len(ChunkIds(filename)) |->
                                         <<ChunkIds(filename)[i], FileChunks(filename)[i]>>]
    /\ removed' = removed \ {filename}
    /\ UNCHANGED <<lockHolder, mem, upc, ufile, uskipped, ares>>
    /\ UNCHANGED <<breakerVars, cacheVars, shardVars, retrieverVars, serviceVars,
                   chunkerVars, concurrentVars>>

\* line 75: self.collection.delete(where={"source": filename})
collection_delete(coll, filename) == {id \in coll : id[1] # filename}

\* lines 66-101: the vector store deletes the file's chunks, or its delete
\* raises and is logged; the lexical index is not touched; True is returned
delete_document(filename, store_ok) ==
    /\ collection' = IF store_ok THEN collection_delete(collection, filename)
                     ELSE collection
    /\ removed' = IF store_ok THEN removed \cup {filename} ELSE removed
    /\ UNCHANGED <<disk, lockHolder, mem, upc, ufile, uskipped, uploads, committed,
                   ares>>
    /\ UNCHANGED <<breakerVars, cacheVars, shardVars, retrieverVars, serviceVars,
                   chunkerVars, concurrentVars>>

\* line 157: self.collection.query(query_texts, n_results): the ids of the
\* nearest chunks the store holds, in an order the store decides
vector_query(coll, n_results) ==
    {hits \in [1..Min(n_results, Cardinality(coll)) -> coll] :
        \A i, j \in 1..Len(hits) : i # j => hits[i] # hits[j]}

\* PersistedBM25Retriever.retrieve: the top_k documents of the snapshot by
\* descending score, zero-score documents left out, ties in insertion order
bm25_retrieve(index, query, top_k) ==
    LET scores == get_scores(index.corpus, tokenizer(query))
        pairs == [i \in 1..Len(index.corpus) |-> <<index.doc_ids[i], scores[i]>>]
    IN  FirstN(SortedDesc(SelectSeq(pairs, LAMBDA pair : pair[2] > 0)), top_k)

\* reciprocal_rank_fusion: every id of either list with the sum over the
\* lists that hold it of 1 / (k + rank + 1), rank its zero-based position;
\* the ids by descending sum, ties in any order
reciprocal_rank_fusion(vector_ids, keyword_ids) ==
    LET ids == Range(vector_ids) \cup Range(keyword_ids)
        Term(list, id) ==
            IF id \in Range(list)
            THEN <<1, rrf_k + (CHOOSE p \in 1..Len(list) :
                                  /\ list[p] = id
                                  /\ \A q \in 1..(p - 1) : list[q] # id)>>
            ELSE <<0, 1>>
        Score(id) == FracAdd(Term(vector_ids, id), Term(keyword_ids, id))
    IN  {fused \in [1..Cardinality(ids) -> ids] :
            /\ \A i, j \in 1..Len(fused) : i # j => fused[i] # fused[j]
            /\ \A i \in 1..(Len(fused) - 1) :
                  ~FracGreater(Score(fused[i + 1]), Score(fused[i]))}

\* lines 173-180: the winning ids are fetched from the vector store again;
\* an id the store does not return is left out, the fused order is kept
Refetch_Unfiltered(coll, top_ids) == top_ids
Refetch(coll, top_ids) == SelectSeq(top_ids, LAMBDA id : id \in coll)

\* lines 154-198 and 233, without a cross-encoder: the passages handed on
answer_question_stream(query, top_k) ==
    /\ LET keyword_cands == bm25_retrieve(disk, query, top_k * 20)
           keyword_ids == [i \in 1..Len(keyword_cands) |-> keyword_cands[i][1]]
       IN  \E hits \in vector_query(collection, top_k * 20) :
              \E fused \in reciprocal_rank_fusion(hits, keyword_ids) :
                 LET top_ids == FirstN(fused, top_k * 3)
                     final_docs == Refetch(collection, top_ids)
                 IN  ares' = [kind |-> "ok", query |-> query, top_k |-> top_k,
                              keyword |-> keyword_ids, top_ids |-> top_ids,
                              passages |-> FirstN(final_docs, top_k),
                              removed |-> removed]
    /\ UNCHANGED <<indexVars, removed>>
    /\ UNCHANGED <<breakerVars, cacheVars, shardVars, retrieverVars, serviceVars,
                   chunkerVars, concurrentVars>>

NextService ==
    \/ \E filename \in Filenames, lock_busy \in BOOLEAN : UploadFile(filename, lock_busy)
    \/ \E filename \in Filenames, store_ok \in BOOLEAN : delete_document(filename, store_ok)
    \/ \E query \in Queries, top_k \in TopKs : answer_question_stream(query, top_k)

(***************************************************************************)
(* Claims about the circuit breaker, checked under SpecBreaker.            *)
(***************************************************************************)
\* a step in which caller p's wrapped call ends by raising / by returning
RaiseStep(p) == cpc[p] = "running" /\ cpc'[p] = "idle" /\ outcome'[p] = "raised"
ReturnStep(p) == cpc[p] = "running" /\ cpc'[p] = "idle" /\ outcome'[p] = "returned"
\* a step in which caller p's call is refused before func is reached
RejectStep(p) == cpc[p] = "idle" /\ cpc'[p] = "idle" /\ outcome'[p] = "rejected"

\* C1: while the breaker is OPEN and now - last_failure_time <= recovery_timeout,
\* every call made is rejected (CircuitBreakerOpenException) and the wrapped
\* function is not invoked.
C1_OpenRejects ==
    [][ (state = "OPEN" /\ now - last_failure_time <= recovery_timeout)
          => /\ invoked' = invoked
             /\ calls' = calls + 1 => \E p \in Callers : RejectStep(p) ]_vars

\* C1 witness: a fresh breaker took failure_threshold consecutive failures and
\* the next call, inside the window, was rejected without reaching func.
C1_Witness ==
    /\ state = "OPEN"
    /\ failures = failure_threshold
    /\ invoked = failure_threshold
    /\ calls = failure_threshold + 1
    /\ now - last_failure_time <= recovery_timeout
    /\ \E p \in Callers : outcome[p] = "rejected"

C2_Step ==
    /\ (state = "CLOSED" /\ calls' = calls + 1)
          => /\ invoked' = invoked + 1
             /\ \E p \in Callers : cpc[p] = "idle" /\ cpc'[p] = "running"
    /\ \A p \in Callers :
          (state = "CLOSED" /\ cpc[p] = "running" /\ cpc'[p] = "idle")
             => \/ ReturnStep(p)
                \/ /\ RaiseStep(p)
                   /\ failures' = failures + 1
                   /\ last_failure_time' = now
    /\ (state = "CLOSED" /\ state' = "OPEN")
          <=> /\ state = "CLOSED"
              /\ \E p \in Callers : RaiseStep(p)
              /\ failures' >= failure_threshold

\* C2: a breaker starts CLOSED with failures = 0; in CLOSED every call reaches
\* the wrapped function, a call that raises adds exactly one to failures,
\* records last_failure_time and ends by raising to the caller, and the state
\* becomes OPEN exactly when failures >= failure_threshold, not before.
C2_ClosedCounts ==
    /\ state = "CLOSED" /\ failures = 0
    /\ [](state = "OPEN" => failures >= failure_threshold)
    /\ [](state = "CLOSED" => failures < failure_threshold)
    /\ [][C2_Step]_vars

\* C2 witness: the failure that reached the threshold opened the breaker.
C2_Witness ==
    /\ state = "OPEN"
    /\ failures = failure_threshold
    /\ last_failure_time = now
    /\ \E p \in Callers : outcome[p] = "raised"

\* C3: in HALF-OPEN the outcome of the attempted call decides the next state:
\* success sets failures to 0 and the state to CLOSED; failure adds one to
\* failures, records the failure time and puts the state back to OPEN.
C3_HalfOpenDecides ==
    [][ \A p \in Callers :
          (state = "HALF-OPEN" /\ cpc[p] = "running" /\ cpc'[p] = "idle")
             => \/ ReturnStep(p) /\ failures' = 0 /\ state' = "CLOSED"
                \/ /\ RaiseStep(p)
                   /\ failures' = failures + 1
                   /\ last_failure_time' = now
                   /\ state' = "OPEN" ]_vars

\* C3 witness: failures is back at 0 after a failure was recorded, which only
\* a successful HALF-OPEN call does.
C3_Witness ==
    /\ state = "CLOSED"
    /\ failures = 0
    /\ last_failure_time > 0
    /\ \E p \in Callers : outcome[p] = "returned"

\* C3 second case: a failed HALF-OPEN trial reopened the breaker.
C3_ReopenedReached ==
    state = "OPEN" /\ failures > failure_threshold

\* C4: between leaving OPEN and the next entry into CLOSED or OPEN the wrapped
\* function is invoked at most once, however many callers arrive while the
\* trial call is running.
C4_SingleTrial == state = "HALF-OPEN" => trial <= 1

\* C26: a call that returns while the breaker is CLOSED leaves failures,
\* last_failure_time and state as they were; failures changes only by one
\* more on a call that raises and to 0 on a HALF-OPEN success, so the
\* failures counted towards failure_threshold are all those since the last
\* reset, successes in between or not.
C26_ClosedSuccessKeepsCount ==
    [][ /\ \A p \in Callers :
             (state = "CLOSED" /\ ReturnStep(p))
                => /\ failures' = failures
                   /\ last_failure_time' = last_failure_time
                   /\ state' = "CLOSED"
        /\ failures' # failures
             => \/ \E p \in Callers : RaiseStep(p) /\ failures' = failures + 1
                \/ \E p \in Callers :
                      ReturnStep(p) /\ state = "HALF-OPEN" /\ failures' = 0
        /\ (state = "CLOSED" /\ failures' >= failure_threshold) => state' = "OPEN"
      ]_vars

\* C26 witness: the breaker opened on failure_threshold failures although one
\* more call had reached func and returned.
C26_Witness ==
    /\ state = "OPEN"
    /\ failures = failure_threshold
    /\ invoked = failure_threshold + 1
    /\ calls = invoked
    /\ \E p \in Callers : outcome[p] = "returned"
    /\ \A p \in Callers : cpc[p] = "idle"

\* the part of C27 about a refused call: it changes neither failures nor
\* last_failure_time, and the first call made after last_failure_time +
\* recovery_timeout turns an OPEN breaker HALF-OPEN
RejectKeepsWindow ==
    /\ \A p \in Callers :
          (RejectStep(p) /\ calls' = calls + 1 /\ invoked' = invoked)
             => failures' = failures /\ last_failure_time' = last_failure_time
    /\ (state = "OPEN" /\ calls' = calls + 1
          /\ now - last_failure_time > recovery_timeout) => state' = "HALF-OPEN"

\* C27 as stated: the first call made more than recovery_timeout after the
\* failure that opened the breaker is admitted as the trial call.
C27_TrialAfterOpeningFailure ==
    [][ (state = "OPEN" /\ calls' = calls + 1 /\ now - opened_at > recovery_timeout)
           => state' = "HALF-OPEN" ]_vars

\* C27 amended: a refused call changes neither failures nor
\* last_failure_time; the first call made more than recovery_timeout after the
\* last recorded failure is admitted as the trial call; and with time
\* advancing and calls arriving an OPEN breaker eventually leaves OPEN (as long
\* as the explored budget of calls and clock values lasts).
C27_OpenEventuallyTries ==
    /\ [][RejectKeepsWindow]_vars
    /\ [](state = "OPEN"
            => <>(\/ state # "OPEN"
                  \/ calls = MaxCalls
                  \/ now = MaxTime /\ ~WindowElapsed))

\* C27 witness: a call was refused inside the window, the window then ran
\* out and the next call became the trial call.
C27_Witness ==
    /\ state = "HALF-OPEN"
    /\ calls > invoked
    /\ now - last_failure_time > recovery_timeout
    /\ \E p \in Callers : cpc[p] = "running"

(***************************************************************************)
(* Claims about the embedding cache.                                       *)
(***************************************************************************)
\* C7: get_or_create called twice in sequence with the same text (the store
\* answering, the entry not expired) calls embed_fn at most once: the first
\* call stores the computed vector before it returns, and the second call
\* returns the stored vector without calling embed_fn.  Checked under
\* SpecCacheSeq, where a call starts only after the previous one returned.
C7_SecondCallHits ==
    \A t \in Texts :
        t \notin expired =>
            /\ embedCalls[t] <= 1
            /\ done[t] >= 1 =>
                  /\ embedCalls[t] = 1
                  /\ RedisCache_get(emb_key_get(t)) = embed_fn(t)
            /\ \A c \in Coros :
                  (etext[c] = t /\ epc[c] = "idle") => eret[c] = embed_fn(t)

\* C7 witness: two calls for one text have returned and embed_fn ran once.
C7_Witness ==
    \E t \in Texts :
        /\ t \notin expired
        /\ done[t] = 2
        /\ embedCalls[t] = 1
        /\ \E c \in Coros : etext[c] = t /\ epc[c] = "idle" /\ eret[c] = embed_fn(t)

\* C8: for any interleaving of get_or_create calls of one process for the same
\* text, embed_fn runs at most once (the lock covers the read-then-write
\* sequence).  Checked under SpecCache, where calls overlap.
C8_EmbedOncePerText ==
    \A t \in Texts : t \notin expired => embedCalls[t] <= 1

(***************************************************************************)
(* Claims about the upload path and the persisted lexical index, checked   *)
(* under SpecIndex.                                                        *)
(***************************************************************************)
\* C5: when index_documents cannot take the exclusive lock at once, the call
\* returns without blocking and without raising and the update is skipped:
\* neither the on-disk snapshot nor the documents any process serves change,
\* and process_upload_stream still reaches "done" with the chunks in the
\* vector store.
C5_LockBusySkips ==
    /\ [](\A w \in Writers :
            (upc[w] = "bm25" /\ lockHolder # 0) => ENABLED SkipLocked(w))
    /\ [][ \A w \in Writers :
            (upc[w] = "bm25" /\ lockHolder # 0 /\ upc'[w] # upc[w])
               => /\ upc'[w] = "done"
                  /\ disk' = disk
                  /\ mem' = mem
                  /\ lockHolder' = lockHolder
                  /\ Range(ChunkIds(ufile[w])) \subseteq collection' ]_vars

\* C5 witness: an upload ended "done" after a skipped update, its chunks in
\* the vector store and in neither the snapshot nor the process's index.
C5_Witness ==
    \E w \in Writers :
        /\ upc[w] = "done"
        /\ uskipped[w]
        /\ Range(ChunkIds(ufile[w])) \subseteq collection
        /\ Range(ChunkIds(ufile[w])) \cap Range(disk.doc_ids) = {}
        /\ Range(ChunkIds(ufile[w])) \cap Range(mem[w].doc_ids) = {}

\* C6: for any interleaving of index_documents calls of several processes, at
\* most one is between lock acquisition and release, and the snapshot holds
\* every document of every writer that saved under the lock, in order, with
\* doc_ids and corpus index-aligned.
C6_WritersSerialized ==
    /\ Cardinality({w \in Writers : upc[w] \in {"locked", "loaded", "saved"}}) <= 1
    /\ \A w \in Writers : upc[w] \in {"locked", "loaded", "saved"} => lockHolder = w
    /\ Len(disk.doc_ids) = Len(committed)
    /\ Len(disk.corpus) = Len(committed)
    /\ \A i \in 1..Len(committed) :
          /\ disk.doc_ids[i] = committed[i][1]
          /\ disk.corpus[i] = tokenizer(committed[i][2])

\* C6 witness: one process saved, then another reloaded and saved on top:
\* the snapshot holds the documents of both.
C6_Witness ==
    \E w1, w2 \in Writers :
        /\ w1 # w2
        /\ lockHolder = 0
        /\ upc[w2] = "done"
        /\ Len(mem[w1].doc_ids) > 0
        /\ Len(mem[w2].doc_ids) > Len(mem[w1].doc_ids)
        /\ disk = mem[w2]

(***************************************************************************)
(* Claims about the sharded lexical index, checked under SpecShards.       *)
(***************************************************************************)
\* C9: after any sequence of add_documents calls adding N documents in total,
\* no shard holds more than shard_size documents, every shard but the last
\* holds exactly shard_size, and there are ceil(N / shard_size) shards.
C9_ShardSizes ==
    LET n == Len(shards)
    IN  /\ n = (added + shard_size - 1) \div shard_size
        /\ \A i \in 1..n :
              /\ Len(shards[i].corpus) <= shard_size
              /\ Len(shards[i].doc_ids) = Len(shards[i].corpus)
              /\ i < n => Len(shards[i].corpus) = shard_size
        /\ n > 0 => Len(shards[n].corpus) = added - (n - 1) * shard_size

\* C9 witness: 2 * shard_size + 1 documents sit in three shards, the first
\* two full and the last holding one (sizes 2, 2, 1 for shard_size = 2).
C9_Witness ==
    /\ added = 2 * shard_size + 1
    /\ Len(shards) = 3
    /\ Len(shards[1].corpus) = shard_size
    /\ Len(shards[2].corpus) = shard_size
    /\ Len(shards[3].corpus) = 1

\* what retrieve promises of a returned list: at most top_k pairs, scores
\* non-increasing, no doc_id twice, each pair the best-scoring occurrence of
\* its doc_id among the shard results
DedupedTopK(r) ==
    /\ Len(r.results) <= r.top_k
    /\ \A i \in 1..(Len(r.results) - 1) : r.results[i][2] >= r.results[i + 1][2]
    /\ \A i, j \in 1..Len(r.results) : i # j => r.results[i][1] # r.results[j][1]
    /\ \A i \in 1..Len(r.results) : \A j \in 1..Len(r.flat) :
          r.flat[j][1] = r.results[i][1] => r.flat[j][2] <= r.results[i][2]

\* C10: retrieve(query, top_k) returns at most top_k pairs, in non-increasing
\* score order, with no doc_id twice, keeping for a duplicated doc_id its
\* highest-scoring occurrence among the shard results.
C10_RetrieveDedups ==
    dres.kind # "none" => dres.kind = "ok" /\ DedupedTopK(dres)

\* the part of C10 the code does keep: a list retrieve returns is
\* deduplicated, ordered and cut to top_k
RetrieveReturnedIsDeduped ==
    dres.kind = "ok" => DedupedTopK(dres)

\* a returned list in which a doc_id held by two shards was deduplicated
RetrieveDedupReached ==
    /\ dres.kind = "ok"
    /\ Len(dres.results) = 1
    /\ Cardinality({j \in 1..Len(dres.flat) : dres.flat[j][1] = dres.results[1][1]}) >= 2
    /\ \E j \in 1..Len(dres.flat) : dres.flat[j][2] < dres.results[1][2]

(***************************************************************************)
(* Claims about one lexical index (BM25Retriever), checked under           *)
(* SpecRetriever.                                                          *)
(***************************************************************************)
\* C11: retrieve never returns a document whose score is <= 0, whatever the
\* corpus, the query and top_k.
C11_OnlyPositiveScores ==
    rres.kind = "ok" => \A i \in 1..Len(rres.results) : rres.results[i][2] > 0

\* C12: retrieve never raises, and returns the empty sequence when nothing is
\* indexed or the query tokenizes to no terms; a top_k larger than the number
\* of indexed documents gives fewer results, not an exception.
C12_DegenerateInputReturnsEmpty ==
    /\ rres.kind \notin {"ValueError", "IndexError"}
    /\ (rres.kind = "ok" /\ (r_bm25 = None \/ tokenizer(rres.query) = <<>>))
          => rres.results = <<>>

\* the part of C12 the code does keep: without an index retrieve returns []
RetrieveWithoutIndexIsEmpty ==
    (rres.kind \in {"ok", "ValueError", "IndexError"} /\ r_bm25 = None)
       => rres.kind = "ok" /\ rres.results = <<>>

\* C13: in every reachable state doc_ids and corpus have the same length,
\* also after a call whose text list and id list differ in length.
C13_IndexAligned == Len(r_doc_ids) = Len(r_corpus)

\* the document at index i of the scored corpus holds a term of the query
SharesTerm(i, query) == Range(r_bm25[i]) \cap Range(tokenizer(query)) # {}

\* C19: retrieve ranks every document that shares a term with the query
\* above every document that shares none: no document without a query term
\* precedes one with a query term in the result, and none is returned while
\* a document with a query term is left out.
C19_SharingRankedAbove ==
    rres.kind = "ok" =>
       /\ \A i, j \in 1..Len(rres.idx) :
             i < j => ~(~SharesTerm(rres.idx[i], rres.query)
                          /\ SharesTerm(rres.idx[j], rres.query))
       /\ \A i \in 1..Len(rres.idx) :
             \A o \in (1..Len(r_bm25)) \ Range(rres.idx) :
                ~(~SharesTerm(rres.idx[i], rres.query) /\ SharesTerm(o, rres.query))

\* the scenario of C19 as the code runs it: d1, d2, d3 indexed, query
\* 'quick fox', top_k = 2 gives d1 before d3, both scores positive
ScenarioCorpus == << <<"the", "quick", "brown", "fox">>,
                     <<"machine", "learning", "is", "fascinating">>,
                     <<"fox", "and", "hound">> >>
ScenarioCase ==
    /\ r_bm25 = ScenarioCorpus
    /\ r_doc_ids = FitIds(3)
    /\ rres.kind = "ok" /\ rres.query = <<"quick", "fox">> /\ rres.top_k = 2
ScenarioRanksD1ThenD3 ==
    ScenarioCase =>
       /\ Len(rres.results) = 2
       /\ rres.results[1][1] = "d1" /\ rres.results[2][1] = "d3"
       /\ rres.results[1][2] > rres.results[2][2] /\ rres.results[2][2] > 0

(***************************************************************************)
(* Claims about the sharded index built by the repository's test.          *)
(***************************************************************************)
\* the (shard, position) pairs of the indexed documents
IndexedDocs == {<<i, j>> \in (1..Len(shards)) \X (1..shard_size) :
                   j <= Len(shards[i].corpus)}
\* the indexed documents that hold a term of the query
MatchingDocs(query) ==
    {d \in IndexedDocs :
        Range(shards[d[1]].corpus[d[2]]) \cap Range(tokenizer(query)) # {}}
\* the indexed documents that hold every term of the query, one of the terms
\* occurring in no other document
BestDocs(query) ==
    {d \in IndexedDocs :
        /\ Range(tokenizer(query)) \subseteq Range(shards[d[1]].corpus[d[2]])
        /\ \E t \in Range(tokenizer(query)) :
              \A o \in IndexedDocs \ {d} : t \notin Range(shards[o[1]].corpus[o[2]])}

\* C18: when at least top_k indexed documents contain a query term,
\* retrieve(query, top_k) completes and returns exactly top_k results, the
\* document that contains every query term among them, whatever shard_size is.
C18_ShardedRetrieveFindsTopK ==
    (dres.kind # "none" /\ Cardinality(MatchingDocs(dres.query)) >= dres.top_k)
       => /\ dres.kind = "ok"
          /\ Len(dres.results) = dres.top_k
          /\ \A d \in BestDocs(dres.query) :
                \E i \in 1..Len(dres.results) :
                   dres.results[i][1] = shards[d[1]].doc_ids[d[2]]

(***************************************************************************)
(* Claims about rank fusion, checked under SpecFusion.                     *)
(***************************************************************************)
\* 1 / (k + p + 1) for the zero-based position p of id in the list, 0 when
\* the list does not hold it
ReciprocalRank(list, id) ==
    IF id \in Range(list) THEN <<1, rrf_k + (Position(list, id) - 1) + 1>>
    ELSE <<0, 1>>

\* C14: the fused score of every doc_id is the sum, over the lists that hold
\* it, of 1 / (k + p + 1) with p its zero-based position, the same formula
\* for the vector list and the lexical list.
C14_SameFormulaBothLists ==
    fres.kind = "ok" =>
       \A id \in DOMAIN fres.scores :
          FracEqual(fres.scores[id],
                    FracAdd(ReciprocalRank(fres.sem, id), ReciprocalRank(fres.key, id)))

\* C15: fusing a list without repeated ids with itself gives the ids in the
\* order of that list; fusing an empty list with a list B (either side
\* empty) gives the order of B; two empty lists give an empty ranking; each
\* result cut to n_results.
C15_FusionKeepsOrder ==
    fres.kind = "ok" =>
       /\ fres.sem = fres.key => fres.ids = FirstN(fres.sem, fres.n_results)
       /\ fres.sem = <<>> => fres.ids = FirstN(fres.key, fres.n_results)
       /\ fres.key = <<>> => fres.ids = FirstN(fres.sem, fres.n_results)

\* C15 witness: a three-candidate list fused with itself came back whole and
\* in its own order.
C15_Witness ==
    /\ fres.kind = "ok"
    /\ fres.sem = fres.key
    /\ Len(fres.sem) = 3
    /\ fres.ids = fres.sem

\* the other cases of C15: an empty list fused with a non-empty one, and two
\* empty lists
FusedEmptyWithListReached ==
    fres.kind = "ok" /\ fres.sem = <<>> /\ Len(fres.key) >= 2 /\ fres.ids = fres.key
FusedTwoEmptyReached ==
    fres.kind = "ok" /\ fres.sem = <<>> /\ fres.key = <<>> /\ fres.ids = <<>>

(***************************************************************************)
(* Claims about the re-ranking stage, checked under SpecRerank.            *)
(***************************************************************************)
\* the candidates whose cross-encoder score is above the floor of -10.0,
\* sorted by descending score
PassingSorted(r) ==
    LET scored == SortedDesc([i \in 1..Len(r.final_docs) |->
                                <<r.final_docs[i], r.scores[i]>>])
        passing == SelectSeq(scored, LAMBDA x : x[2] > -10)
    IN  [i \in 1..Len(passing) |-> passing[i][1]]

\* the re-ranking stage ran on a non-empty fused candidate list
Reranked == kres.kind = "ok" /\ kres.cross_encoder /\ kres.final_docs # <<>>

\* C16 as stated: after re-ranking a non-empty candidate list the result is
\* non-empty; it is the first three fused candidates when no candidate
\* passes the filter, otherwise the candidates that pass, by descending score.
C16_RerankAllPassing ==
    Reranked =>
       /\ kres.handed # <<>>
       /\ kres.handed = IF PassingSorted(kres) = <<>> THEN FirstN(kres.final_docs, 3)
                        ELSE PassingSorted(kres)

\* C16 amended: as above, but when some candidate passes the filter the
\* result is the first top_k of the passing candidates, by descending score.
C16_RerankNeverEmpty ==
    Reranked =>
       /\ kres.handed # <<>>
       /\ kres.handed = IF PassingSorted(kres) = <<>> THEN FirstN(kres.final_docs, 3)
                        ELSE FirstN(PassingSorted(kres), kres.top_k)

\* C16 witness: four candidates, every score at or below the floor; the first
\* three are handed on in fused order.
C16_Witness ==
    /\ Reranked
    /\ Len(kres.final_docs) = 4
    /\ \A i \in 1..4 : kres.scores[i] <= -10
    /\ kres.handed = FirstN(Passages, 3)

\* the other case of C16: the filter dropped one candidate and the rest came
\* back re-ordered by score
RerankFilteredReached ==
    /\ Reranked
    /\ Len(kres.final_docs) = 3
    /\ kres.scores = <<-9, -11, 5>>
    /\ kres.handed = <<"p3", "p1">>

(***************************************************************************)
(* Claims about hybrid search, checked under SpecHybrid.                   *)
(***************************************************************************)
\* C17: a hybrid search ends in an error only when both the vector-store
\* query and the lexical retrieval failed; with one path failing the
\* surviving path's candidates are returned.
C17_OnePathFailureSurvives ==
    hres.kind = "raised" => ~hres.sem_ok /\ ~hres.key_ok

(***************************************************************************)
(* Claims about query expansion, checked under SpecExpansion.              *)
(***************************************************************************)
\* C20: a query_expansion call whose expansion times out or raises is counted
\* by the breaker: failures is incremented and last_failure_time recorded, so
\* after failure_threshold such calls in a row the breaker is OPEN; the call
\* returns the unexpanded query.
C20_ExpansionFailuresCounted ==
    qres.kind \in {"raises", "times_out"} =>
       /\ failures >= qres.failed
       /\ last_failure_time = qres.at
       /\ qres.failed >= failure_threshold => state = "OPEN"
       /\ qres.result = "unexpanded"

\* failure_threshold expansions in a row have failed and the breaker has
\* counted none of them
UncountedFailuresReached ==
    /\ qres.kind = "times_out"
    /\ qres.failed >= failure_threshold
    /\ failures = 0 /\ state = "CLOSED"
    /\ qres.result = "unexpanded"

\* C29: the passages handed to generation (and reported as sources) are
\* never more than the requested top_k, with or without a cross-encoder and
\* also when the re-ranker rejects every candidate.
C29_AtMostTopK ==
    kres.kind = "ok" => Len(kres.handed) <= kres.top_k

\* the part of C29 the code does keep: without the fallback the cut to top_k
\* is applied
NoFallbackAtMostTopK ==
    (kres.kind = "ok" /\ ~(Reranked /\ PassingSorted(kres) = <<>>))
       => Len(kres.handed) <= kres.top_k

\* C22: the results of retrieve are in non-increasing score order, documents
\* of equal score in insertion order, and of two documents with equal score
\* at the top_k cut-off the earlier-inserted one is kept.
C22_TiesInInsertionOrder ==
    rres.kind = "ok" =>
       LET scores == get_scores(r_bm25, tokenizer(rres.query))
       IN  /\ \A i \in 1..(Len(rres.idx) - 1) :
                \/ scores[rres.idx[i]] > scores[rres.idx[i + 1]]
                \/ /\ scores[rres.idx[i]] = scores[rres.idx[i + 1]]
                   /\ rres.idx[i] < rres.idx[i + 1]
           /\ \A i \in 1..Len(rres.idx) :
                \A o \in (1..Len(r_bm25)) \ Range(rres.idx) :
                   scores[o] = scores[rres.idx[i]] => rres.idx[i] < o

\* the part of C22 the code does keep: the scores returned never increase
RetrieveScoresNonIncreasing ==
    rres.kind = "ok" =>
       \A i \in 1..(Len(rres.results) - 1) :
          rres.results[i][2] >= rres.results[i + 1][2]

(***************************************************************************)
(* Claims about the chunkers, checked under SpecChunker.                   *)
(***************************************************************************)
\* the cosine similarity of two non-zero vectors is below the threshold
CosineBelow(a, b, threshold) ==
    \/ Dot(a, b) <= 0
    \/ Dot(a, b) * Dot(a, b) * threshold[2] * threshold[2]
          < threshold[1] * threshold[1] * Dot(a, a) * Dot(b, b)

\* C23: for a non-empty sequence of N embeddings find_breakpoints returns the
\* strictly increasing sequence of 0 followed by exactly the indices i in
\* 1..N-1 whose cosine similarity between embeddings[i-1] and embeddings[i]
\* is below the threshold (so N identical vectors give [0]).
C23_BreakpointsAreCosineDrops ==
    (/\ cres.kind = "breakpoints"
     /\ Len(cres.vectors) >= 1
     /\ \A i \in 1..Len(cres.vectors) : Dot(cres.vectors[i], cres.vectors[i]) > 0)
       => /\ cres.result.kind = "ok"
          /\ LET value == cres.result.value
             IN  /\ Len(value) >= 1 /\ value[1] = 0
                 /\ \A k \in 1..(Len(value) - 1) : value[k] < value[k + 1]
                 /\ {value[k] : k \in 2..Len(value)}
                      = {i \in 1..(Len(cres.vectors) - 1) :
                            CosineBelow(cres.vectors[i], cres.vectors[i + 1],
                                        cres.threshold)}

\* what find_breakpoints does return: index 0 and, on numpy arrays, the
\* indices whose two vectors have a dot product <= 0
BreakpointsOnlyWhereDotNotPositive ==
    (cres.kind = "breakpoints" /\ cres.result.kind = "ok")
       => \A k \in 1..Len(cres.result.value) :
             \/ k = 1 /\ cres.result.value[k] = 0
             \/ k > 1 /\ Dot(cres.vectors[cres.result.value[k]],
                             cres.vectors[cres.result.value[k] + 1]) <= 0

\* the <<start, end>> a chunk's sentence_range names
RangeOf(chunk) ==
    <<chunk.metadata["sentence_range"][1], chunk.metadata["sentence_range"][3]>>

\* the chunks' ranges are non-empty, contiguous, start at 0 and end at n;
\* each chunk is semantic and its text is that of its range
PartitionOf(chunks, sentences) ==
    /\ Len(chunks) = 0 <=> Len(sentences) = 0
    /\ Len(chunks) > 0 =>
          /\ RangeOf(chunks[1])[1] = 0
          /\ RangeOf(chunks[Len(chunks)])[2] = Len(sentences)
    /\ \A k \in 1..Len(chunks) :
          /\ RangeOf(chunks[k])[1] < RangeOf(chunks[k])[2]
          /\ k < Len(chunks) => RangeOf(chunks[k])[2] = RangeOf(chunks[k + 1])[1]
          /\ chunks[k].metadata["chunk_type"] = "semantic"
          /\ chunks[k].page_content
                = Join([j \in 1..(RangeOf(chunks[k])[2] - RangeOf(chunks[k])[1])
                          |-> sentences[RangeOf(chunks[k])[1] + j].text])

\* C24: chunk_semantically with a cache configured returns chunks whose
\* sentence ranges partition the sentence sequence, each of chunk_type
\* semantic with the sentence_range it was built from; zero sentences give
\* zero chunks without error.
C24_ChunksPartitionSentences ==
    cres.kind = "semantic"
       => /\ cres.result.kind = "ok"
          /\ PartitionOf(cres.result.chunks, sentencize(cres.documents))

\* a chunk_semantically call that returns, returns a partition; it returns
\* only when there are fewer than two sentences
ReturnedChunksPartition ==
    cres.kind = "semantic"
       => /\ cres.result.kind = "ok" <=> Len(sentencize(cres.documents)) < 2
          /\ cres.result.kind = "ok"
                => PartitionOf(cres.result.chunks, sentencize(cres.documents))

\* the index of the document that each sentence of sentencize comes from
RECURSIVE SentenceOwners(_, _)
SentenceOwners(documents, d) ==
    IF d > Len(documents) THEN <<>>
    ELSE [j \in 1..Len(sentencize(<<documents[d]>>)) |-> d]
            \o SentenceOwners(documents, d + 1)

\* C30: chunk_semantically over several documents returns chunks each made
\* of the sentences of one document and carrying that document's metadata.
C30_ChunksStayInOneDocument ==
    (cres.kind = "semantic" /\ Len(cres.documents) >= 2)
       => /\ cres.result.kind = "ok"
          /\ \A k \in 1..Len(cres.result.chunks) :
                \E d \in 1..Len(cres.documents) :
                   /\ \A j \in (RangeOf(cres.result.chunks[k])[1] + 1)
                                  ..RangeOf(cres.result.chunks[k])[2] :
                         SentenceOwners(cres.documents, 1)[j] = d
                   /\ \A key \in DOMAIN cres.documents[d].metadata :
                         cres.result.chunks[k].metadata[key]
                            = cres.documents[d].metadata[key]

\* the parent chunks and the child chunks of an output, by position
ParentsOf(chunks) == {i \in 1..Len(chunks) : chunks[i].metadata["chunk_type"] = "parent"}
ChildrenOf(chunks) == {i \in 1..Len(chunks) : chunks[i].metadata["chunk_type"] = "child"}

IdsWellFormed(chunks) ==
    /\ ParentsOf(chunks) \cup ChildrenOf(chunks) = 1..Len(chunks)
    /\ \A i \in ChildrenOf(chunks) :
          /\ Cardinality({j \in ParentsOf(chunks) :
                 chunks[j].metadata["parent_id"] = chunks[i].metadata["parent_id"]}) = 1
          /\ \E j \in ParentsOf(chunks) :
                j < i /\ chunks[j].metadata["parent_id"] = chunks[i].metadata["parent_id"]
    /\ \A i, j \in ParentsOf(chunks) :
          i # j => chunks[i].metadata["parent_id"] # chunks[j].metadata["parent_id"]
    /\ \A i, j \in ChildrenOf(chunks) :
          i # j => chunks[i].metadata["child_id"] # chunks[j].metadata["child_id"]

\* C25: in the output of chunk_with_parent_child every child follows its
\* parent, has chunk_type child and a parent_id naming exactly one parent of
\* the output; parent_ids are pairwise distinct and child_ids are pairwise
\* distinct, also when several documents carry the same source.
C25_ParentChildIdsDistinct ==
    (cres.kind = "parent_child" /\ cres.result.kind = "ok")
       => IdsWellFormed(cres.result.chunks)

\* the ids are well formed whenever the documents' sources differ
DistinctSourcesGiveDistinctIds ==
    (/\ cres.kind = "parent_child" /\ cres.result.kind = "ok"
     /\ \A i, j \in 1..Len(cres.documents) :
           i # j => MetadataGet(cres.documents[i].metadata, "source", "doc")
                       # MetadataGet(cres.documents[j].metadata, "source", "doc"))
       => IdsWellFormed(cres.result.chunks)

(***************************************************************************)
(* Claims about retrieve beside add_documents, checked under               *)
(* SpecConcurrent.                                                         *)
(***************************************************************************)
\* what a reader can rely on: a shard's statistics never cover more
\* documents than its doc_ids list, no thread reads past doc_ids, and every
\* pair a thread returns is an added doc_id with the score that the
\* statistics it read give to that document's own text
ReadsAreConsistent ==
    /\ \A s \in 1..Len(shards) :
          shards[s].bm25 # None => Len(shards[s].bm25) <= Len(shards[s].doc_ids)
    /\ \A i \in 1..Len(tpc) :
          /\ tpc[i].stage # "IndexError"
          /\ tpc[i].stage = "done" =>
                \A k \in 1..Len(tpc[i].results) :
                   /\ tpc[i].results[k][1] \in DOMAIN doc_id_to_shard
                   /\ tpc[i].results[k][1] = shards[i].doc_ids[tpc[i].idx[k]]
                   /\ tpc[i].results[k][2]
                        = DocScore(tpc[i].bm25, shards[i].corpus[tpc[i].idx[k]],
                                   tokenizer(gres.query))
    /\ gres.kind = "ok" =>
          \A k \in 1..Len(gres.results) : gres.results[k][1] \in DOMAIN doc_id_to_shard

\* C21: a retrieve that runs beside add_documents needs no lock: in every
\* interleaving it does not fail, every doc_id it returns was added, and the
\* score paired with a doc_id is that document's own (the statistics a
\* reader sees never cover more documents than the shard's doc_ids).
C21_ConcurrentRetrieveSafe ==
    /\ ReadsAreConsistent
    /\ \A i \in 1..Len(tpc) : tpc[i].stage \in {"start", "scored", "done"}
    /\ gres.kind # "raised"

\* a thread ranked a shard's older statistics and then read doc_ids after
\* add_documents had appended to the shard
ReadDuringAddReached ==
    \E i \in 1..Len(tpc) :
       /\ tpc[i].stage = "done"
       /\ tpc[i].bm25 # None
       /\ Len(tpc[i].bm25) < Len(shards[i].doc_ids)
       /\ wpc.stage # "idle"

(***************************************************************************)
(* Claims about deletion and retrieval, checked under SpecService.         *)
(***************************************************************************)
\* C28: once delete_document has removed a file's chunks from the vector
\* store, no later query (until the file is uploaded again) returns a
\* passage of that file, whatever uploads, deletions and queries came before
\* and although the lexical index still returns the deleted ids.
C28_DeletedNeverReturned ==
    /\ \A f \in removed : Range(ChunkIds(f)) \cap collection = {}
    /\ ares.kind = "ok" =>
          \A k \in 1..Len(ares.passages) : ares.passages[k][1] \notin ares.removed

\* C28 witness: a query after a deletion whose lexical results and fused ids
\* named a chunk of the deleted file, and which returned other passages.
C28_Witness ==
    /\ ares.kind = "ok"
    /\ ares.passages # <<>>
    /\ \E k \in 1..Len(ares.top_ids) :
          /\ ares.top_ids[k][1] \in ares.removed
          /\ ares.top_ids[k] \in Range(ares.keyword)

NoResult == [kind |-> "none"]

InitService ==
    /\ fres = NoResult
    /\ hres = NoResult
    /\ kres = NoResult
    /\ qres = NoResult
    /\ qcalls = 0

Init ==
    /\ InitBreaker /\ InitCache /\ InitIndex /\ InitShards
    /\ InitRetriever /\ InitService /\ InitChunker /\ InitConcurrent
    /\ InitAnswers

SpecBreaker == Init /\ [][NextBreaker]_vars
\* time keeps advancing, calls keep arriving and a running call ends
SpecBreakerLive ==
    /\ Init /\ [][NextBreaker]_vars
    /\ WF_vars(Tick)
    /\ \A p \in Callers : WF_vars(Admit(p)) /\ WF_vars(ReturnOK(p) \/ Raise(p))
SpecCache == Init /\ [][NextCache]_vars
SpecCacheSeq == Init /\ [][NextCacheSeq]_vars
SpecIndex == Init /\ [][NextIndex]_vars
SpecShards == Init /\ [][NextShards]_vars
SpecRetriever == Init /\ [][NextRetriever]_vars
SpecFusion == Init /\ [][NextFusion]_vars
SpecHybrid == Init /\ [][NextHybrid]_vars
SpecRerank == Init /\ [][NextRerank]_vars
SpecExpansion == Init /\ [][NextExpansion]_vars
SpecChunker == Init /\ [][NextChunker]_vars
SpecConcurrent == Init /\ [][NextConcurrent]_vars
SpecService == Init /\ [][NextService]_vars

====
